---- MODULE Spec2Model ----
(***************************************************************************)
(* Model of the code-quality-agent pipeline: the pattern detectors, the    *)
(* model-assisted extractor, the aggregator (QualityEngine) and the Q&A    *)
(* session layer.                                                          *)
(*                                                                         *)
(* Representation of JavaScript values:                                    *)
(*   - a string that the code inspects (a path, a source line) is a        *)
(*     sequence of one-character strings; a string that the code only      *)
(*     copies (a title, a suggestion) is a TLA+ string;                    *)
(*   - file.content is kept as the sequence of its lines, which is what    *)
(*     content.split("\n") returns (never the empty sequence);             *)
(*   - NaN and undefined are explicit values, never an integer.            *)
(***************************************************************************)
EXTENDS Integers, Sequences, FiniteSets, TLC

\* ------------------------------------------------------------------------
\* Characters and character classes used by the regular expressions
\* ------------------------------------------------------------------------
LowerLetters == {"a","b","c","d","e","f","g","h","i","j","k","l","m",
                 "n","o","p","q","r","s","t","u","v","w","x","y","z"}

UpperLetters == {"A","B","C","D","E","F","G","H","I","J","K","L","M",
                 "N","O","P","Q","R","S","T","U","V","W","X","Y","Z"}

Digits == {"0","1","2","3","4","5","6","7","8","9"}

\* String.prototype.toLowerCase on one character (also the /i flag)
ToLowerChar(c) ==
  CASE c = "A" -> "a" [] c = "B" -> "b" [] c = "C" -> "c" [] c = "D" -> "d"
    [] c = "E" -> "e" [] c = "F" -> "f" [] c = "G" -> "g" [] c = "H" -> "h"
    [] c = "I" -> "i" [] c = "J" -> "j" [] c = "K" -> "k" [] c = "L" -> "l"
    [] c = "M" -> "m" [] c = "N" -> "n" [] c = "O" -> "o" [] c = "P" -> "p"
    [] c = "Q" -> "q" [] c = "R" -> "r" [] c = "S" -> "s" [] c = "T" -> "t"
    [] c = "U" -> "u" [] c = "V" -> "v" [] c = "W" -> "w" [] c = "X" -> "x"
    [] c = "Y" -> "y" [] c = "Z" -> "z" [] OTHER -> c

ToLowerCase(s) == [i \in 1..Len(s) |-> ToLowerChar(s[i])]

\* The backquote character (U+0060), written out because a TLA+ string cannot
\* hold it
Backquote == "<backquote>"

\* the three quote characters of the rule tables
QuoteChars == {"'", "\"", Backquote}

\* \w
IsWordChar(c) == c \in LowerLetters \cup UpperLetters \cup Digits \cup {"_"}

\* \s
IsSpace(c) == c \in {" ", "\t", "\n", "\r"}

\* The character classes of the rule tables, by name
InClass(cls, c) ==
  CASE cls = "any"        -> TRUE                      \* .
    [] cls = "space"      -> IsSpace(c)                \* \s
    [] cls = "word"       -> IsWordChar(c)             \* \w
    [] cls = "digit"      -> c \in Digits              \* \d
    [] cls = "quote"      -> c \in QuoteChars    \* the three quote characters
    [] cls = "notquote"   -> c \notin QuoteChars \* any but the three quote characters
    [] cls = "notrbrace"  -> c # "}"                   \* [^}]
    [] cls = "notrbrack"  -> c # "]"                   \* [^\]]
    [] cls = "notrparen"  -> c # ")"                   \* [^)]
    [] cls = "colonequal" -> c \in {":", "="}          \* [:=]
    [] cls = "usdash"     -> c \in {"_", "-"}          \* [_-]

\* ------------------------------------------------------------------------
\* A regular expression is a sequence of items:
\*   Lit(s)            the characters of s
\*   Alt(S)            one of the literal alternatives in the set S
\*   Cls(c, min, max)  min..max characters of class c (max = Unbounded: no limit)
\*   End               $  (the patterns are applied to single lines, no m flag)
\*   WordB             \b
\* RegExp.prototype.test is the existence of a match at some start position.
\* ------------------------------------------------------------------------
Unbounded == -1

Lit(s) == [k |-> "lit", s |-> s]

Alt(S) == [k |-> "alt", opts |-> S]

Cls(c, lo, hi) == [k |-> "cls", c |-> c, min |-> lo, max |-> hi]

End == [k |-> "end"]

WordB == [k |-> "wb"]

Star(c) == Cls(c, 0, Unbounded)

Plus(c) == Cls(c, 1, Unbounded)

One(c) == Cls(c, 1, 1)

EqChars(ci, a, b) ==
  /\ Len(a) = Len(b)
  /\ \A i \in 1..Len(a) :
       IF ci THEN ToLowerChar(a[i]) = ToLowerChar(b[i]) ELSE a[i] = b[i]

LitAt(ci, line, pos, s) ==
  /\ pos + Len(s) - 1 <= Len(line)
  /\ EqChars(ci, SubSeq(line, pos, pos + Len(s) - 1), s)

AtWordBoundary(line, pos) ==
  LET before == pos > 1 /\ IsWordChar(line[pos - 1])
      after  == pos <= Len(line) /\ IsWordChar(line[pos])
  IN  before # after

RECURSIVE MatchAt(_, _, _, _, _)
MatchAt(pat, ci, line, pi, pos) ==
  IF pi > Len(pat) THEN TRUE
  ELSE LET it == pat[pi] IN
    CASE it.k = "lit" ->
           /\ LitAt(ci, line, pos, it.s)
           /\ MatchAt(pat, ci, line, pi + 1, pos + Len(it.s))
      [] it.k = "alt" ->
           \E o \in it.opts :
             /\ LitAt(ci, line, pos, o)
             /\ MatchAt(pat, ci, line, pi + 1, pos + Len(o))
      [] it.k = "cls" ->
           \E n \in it.min..(Len(line) - pos + 1) :
             /\ it.max = Unbounded \/ n <= it.max
             /\ \A q \in pos..(pos + n - 1) : InClass(it.c, line[q])
             /\ MatchAt(pat, ci, line, pi + 1, pos + n)
      [] it.k = "end" ->
           /\ pos = Len(line) + 1
           /\ MatchAt(pat, ci, line, pi + 1, pos)
      [] it.k = "wb" ->
           /\ AtWordBoundary(line, pos)
           /\ MatchAt(pat, ci, line, pi + 1, pos)

\* pattern.test(line); ci is the /i flag
Test(pat, ci, line) == \E pos \in 1..(Len(line) + 1) : MatchAt(pat, ci, line, 1, pos)

\* String.prototype.includes
Includes(s, sub) ==
  \E i \in 1..(Len(s) - Len(sub) + 1) : SubSeq(s, i, i + Len(sub) - 1) = sub

\* String.prototype.endsWith
EndsWith(s, suf) ==
  Len(s) >= Len(suf) /\ SubSeq(s, Len(s) - Len(suf) + 1, Len(s)) = suf

\* String.prototype.trim
RECURSIVE TrimLeft(_)
TrimLeft(s) == IF s # <<>> /\ IsSpace(Head(s)) THEN TrimLeft(Tail(s)) ELSE s

RECURSIVE TrimRight(_)
TrimRight(s) ==
  IF s # <<>> /\ IsSpace(s[Len(s)]) THEN TrimRight(SubSeq(s, 1, Len(s) - 1)) ELSE s

Trim(s) == TrimRight(TrimLeft(s))

\* (line.match(/c/g) || []).length for a single character c
CountChar(line, c) == Cardinality({i \in 1..Len(line) : line[i] = c})

\* ------------------------------------------------------------------------
\* QualityIssue (src/types.ts).  id and description are built from a template
\* and arguments in the code; they are kept as the tuple <<template, args..>>
\* and the record [text, args].  line is NoLine when the field is undefined.
\* ------------------------------------------------------------------------
NoLine == -1

Desc(text) == [text |-> text, args |-> <<>>]

DescArgs(text, args) == [text |-> text, args |-> args]

\* The (index, pattern) pairs of lines.forEach(... patterns.forEach(...)) in
\* iteration order; index is the 0-based line index, p the pattern's position
LinePatternPairs(lines, pats) ==
  [k \in 1..(Len(lines) * Len(pats)) |->
     [index |-> (k - 1) \div Len(pats), p |-> ((k - 1) % Len(pats)) + 1]]

\* The pairs whose pattern.test(line) is true, in iteration order
Hits(lines, pats, ci) ==
  SelectSeq(LinePatternPairs(lines, pats),
            LAMBDA h : Test(pats[h.p], ci, lines[h.index + 1]))

\* ------------------------------------------------------------------------
\* SecurityAnalyzer
\* ------------------------------------------------------------------------
sqlPatterns ==
  << \* /query\s*\(\s*['"`][^'"`]*\$\{[^}]+\}[^'"`]*['"`]/i
     << Lit(<<"q", "u", "e", "r", "y">>), Star("space"), Lit(<<"(">>), Star("space"), One("quote"),
        Star("notquote"), Lit(<<"$", "{">>), Plus("notrbrace"), Lit(<<"}">>),
        Star("notquote"), One("quote") >>,
     \* /execute\s*\(\s*['"`][^'"`]*\+[^'"`]*['"`]/i
     << Lit(<<"e", "x", "e", "c", "u", "t", "e">>), Star("space"), Lit(<<"(">>), Star("space"), One("quote"),
        Star("notquote"), Lit(<<"+">>), Star("notquote"), One("quote") >>,
     \* /SELECT\s+.*\+.*FROM/i
     << Lit(<<"S", "E", "L", "E", "C", "T">>), Plus("space"), Star("any"), Lit(<<"+">>), Star("any"),
        Lit(<<"F", "R", "O", "M">>) >>,
     \* /INSERT\s+.*\+.*VALUES/i
     << Lit(<<"I", "N", "S", "E", "R", "T">>), Plus("space"), Star("any"), Lit(<<"+">>), Star("any"),
        Lit(<<"V", "A", "L", "U", "E", "S">>) >> >>

checkSqlInjection(file, lines) ==
  LET hits == Hits(lines, sqlPatterns, TRUE) IN
  [h \in 1..Len(hits) |->
     [id          |-> <<"sql-injection", hits[h].index>>,
      type        |-> "security",
      severity    |-> "critical",
      title       |-> "Potential SQL Injection",
      description |-> Desc("Dynamic SQL query construction detected. This could lead to SQL injection vulnerabilities."),
      file        |-> file.path,
      line        |-> hits[h].index + 1,
      suggestion  |-> "Use parameterized queries or prepared statements instead of string concatenation.",
      impact      |-> "Attackers could execute arbitrary SQL commands, potentially accessing or modifying sensitive data.",
      effort      |-> "medium"]]

xssPatterns ==
  << \* /innerHTML\s*=\s*.*\+/i
     << Lit(<<"i", "n", "n", "e", "r", "H", "T", "M", "L">>), Star("space"), Lit(<<"=">>), Star("space"), Star("any"),
        Lit(<<"+">>) >>,
     \* /document\.write\s*\(/i
     << Lit(<<"d", "o", "c", "u", "m", "e", "n", "t", ".", "w", "r", "i", "t", "e">>), Star("space"), Lit(<<"(">>) >>,
     \* /eval\s*\(/i
     << Lit(<<"e", "v", "a", "l">>), Star("space"), Lit(<<"(">>) >>,
     \* /dangerouslySetInnerHTML/i
     << Lit(<<"d", "a", "n", "g", "e", "r", "o", "u", "s", "l", "y", "S", "e", "t", "I", "n", "n", "e", "r", "H", "T", "M", "L">>) >> >>

checkXss(file, lines) ==
  LET hits == Hits(lines, xssPatterns, TRUE) IN
  [h \in 1..Len(hits) |->
     [id          |-> <<"xss", hits[h].index>>,
      type        |-> "security",
      severity    |-> "high",
      title       |-> "Potential XSS Vulnerability",
      description |-> Desc("Dynamic HTML content insertion detected without proper sanitization."),
      file        |-> file.path,
      line        |-> hits[h].index + 1,
      suggestion  |-> "Sanitize user input before inserting into DOM or use safe DOM manipulation methods.",
      impact      |-> "Attackers could inject malicious scripts that execute in users' browsers.",
      effort      |-> "medium"]]

secretPatterns ==
  << \* /(?:password|pwd|pass)\s*[:=]\s*['"`][^'"`]{3,}['"`]/i
     << Alt({<<"p", "a", "s", "s", "w", "o", "r", "d">>, <<"p", "w", "d">>, <<"p", "a", "s", "s">>}), Star("space"), One("colonequal"),
        Star("space"), One("quote"), Cls("notquote", 3, Unbounded), One("quote") >>,
     \* /(?:api[_-]?key|apikey)\s*[:=]\s*['"`][^'"`]{10,}['"`]/i
     << Alt({<<"a", "p", "i", "_", "k", "e", "y">>, <<"a", "p", "i", "-", "k", "e", "y">>, <<"a", "p", "i", "k", "e", "y">>}), Star("space"),
        One("colonequal"), Star("space"), One("quote"),
        Cls("notquote", 10, Unbounded), One("quote") >>,
     \* /(?:secret|token)\s*[:=]\s*['"`][^'"`]{10,}['"`]/i
     << Alt({<<"s", "e", "c", "r", "e", "t">>, <<"t", "o", "k", "e", "n">>}), Star("space"), One("colonequal"),
        Star("space"), One("quote"), Cls("notquote", 10, Unbounded), One("quote") >>,
     \* /(?:private[_-]?key)\s*[:=]\s*['"`][^'"`]{20,}['"`]/i
     << Alt({<<"p", "r", "i", "v", "a", "t", "e", "_", "k", "e", "y">>, <<"p", "r", "i", "v", "a", "t", "e", "-", "k", "e", "y">>, <<"p", "r", "i", "v", "a", "t", "e", "k", "e", "y">>}), Star("space"),
        One("colonequal"), Star("space"), One("quote"),
        Cls("notquote", 20, Unbounded), One("quote") >> >>

checkHardcodedSecrets(file, lines) ==
  LET hits == Hits(lines, secretPatterns, TRUE) IN
  [h \in 1..Len(hits) |->
     [id          |-> <<"hardcoded-secret", hits[h].index>>,
      type        |-> "security",
      severity    |-> "critical",
      title       |-> "Hardcoded Secret Detected",
      description |-> Desc("Sensitive information appears to be hardcoded in the source code."),
      file        |-> file.path,
      line        |-> hits[h].index + 1,
      suggestion  |-> "Move secrets to environment variables or secure configuration files.",
      impact      |-> "Exposed credentials could lead to unauthorized access to systems and data.",
      effort      |-> "low"]]

randomPatterns ==
  << \* /Math\.random$$$$/i
     << Lit(<<"M", "a", "t", "h", ".", "r", "a", "n", "d", "o", "m">>), End, End, End, End >>,
     \* /Random$$$$/i
     << Lit(<<"R", "a", "n", "d", "o", "m">>), End, End, End, End >>,
     \* /rand$$$$/i
     << Lit(<<"r", "a", "n", "d">>), End, End, End, End >> >>

\* /(?:password|token|key|salt|nonce)/i
securityContextPattern ==
  << Alt({<<"p", "a", "s", "s", "w", "o", "r", "d">>, <<"t", "o", "k", "e", "n">>, <<"k", "e", "y">>, <<"s", "a", "l", "t">>, <<"n", "o", "n", "c", "e">>}) >>

checkInsecureRandomness(file, lines) ==
  LET hits == SelectSeq(Hits(lines, randomPatterns, TRUE),
                        LAMBDA h : Test(securityContextPattern, TRUE, lines[h.index + 1]))
  IN
  [h \in 1..Len(hits) |->
     [id          |-> <<"insecure-random", hits[h].index>>,
      type        |-> "security",
      severity    |-> "medium",
      title       |-> "Insecure Random Number Generation",
      description |-> Desc("Cryptographically weak random number generator used for security-sensitive operations."),
      file        |-> file.path,
      line        |-> hits[h].index + 1,
      suggestion  |-> "Use cryptographically secure random number generators for security-sensitive operations.",
      impact      |-> "Predictable random values could be exploited by attackers.",
      effort      |-> "low"]]

pathPatterns ==
  << \* /readFile\s*\(\s*.*\+/i
     << Lit(<<"r", "e", "a", "d", "F", "i", "l", "e">>), Star("space"), Lit(<<"(">>), Star("space"), Star("any"),
        Lit(<<"+">>) >>,
     \* /writeFile\s*\(\s*.*\+/i
     << Lit(<<"w", "r", "i", "t", "e", "F", "i", "l", "e">>), Star("space"), Lit(<<"(">>), Star("space"), Star("any"),
        Lit(<<"+">>) >>,
     \* /path\.join\s*\(\s*.*req\./i
     << Lit(<<"p", "a", "t", "h", ".", "j", "o", "i", "n">>), Star("space"), Lit(<<"(">>), Star("space"), Star("any"),
        Lit(<<"r", "e", "q", ".">>) >>,
     \* /\.\.\//  (the /i flag is absent; the pattern has no letters)
     << Lit(<<".", ".", "/">>) >> >>

checkPathTraversal(file, lines) ==
  LET hits == Hits(lines, pathPatterns, TRUE) IN
  [h \in 1..Len(hits) |->
     [id          |-> <<"path-traversal", hits[h].index>>,
      type        |-> "security",
      severity    |-> "high",
      title       |-> "Potential Path Traversal",
      description |-> Desc("File path construction using user input without proper validation."),
      file        |-> file.path,
      line        |-> hits[h].index + 1,
      suggestion  |-> "Validate and sanitize file paths, use allowlists for permitted directories.",
      impact      |-> "Attackers could access files outside the intended directory structure.",
      effort      |-> "medium"]]

commandPatterns ==
  << \* /exec\s*\(\s*.*\+/i
     << Lit(<<"e", "x", "e", "c">>), Star("space"), Lit(<<"(">>), Star("space"), Star("any"),
        Lit(<<"+">>) >>,
     \* /spawn\s*\(\s*.*\+/i
     << Lit(<<"s", "p", "a", "w", "n">>), Star("space"), Lit(<<"(">>), Star("space"), Star("any"),
        Lit(<<"+">>) >>,
     \* /system\s*\(\s*.*\+/i
     << Lit(<<"s", "y", "s", "t", "e", "m">>), Star("space"), Lit(<<"(">>), Star("space"), Star("any"),
        Lit(<<"+">>) >>,
     \* /shell_exec\s*\(/i
     << Lit(<<"s", "h", "e", "l", "l", "_", "e", "x", "e", "c">>), Star("space"), Lit(<<"(">>) >> >>

checkCommandInjection(file, lines) ==
  LET hits == Hits(lines, commandPatterns, TRUE) IN
  [h \in 1..Len(hits) |->
     [id          |-> <<"command-injection", hits[h].index>>,
      type        |-> "security",
      severity    |-> "critical",
      title       |-> "Potential Command Injection",
      description |-> Desc("System command execution with user-controlled input detected."),
      file        |-> file.path,
      line        |-> hits[h].index + 1,
      suggestion  |-> "Avoid executing system commands with user input. If necessary, use parameterized commands and input validation.",
      impact      |-> "Attackers could execute arbitrary system commands on the server.",
      effort      |-> "high"]]

\* SecurityAnalyzer.analyzeFile
SecurityAnalyzeFile(file) ==
  LET lines == file.content IN
       checkSqlInjection(file, lines)
    \o checkXss(file, lines)
    \o checkHardcodedSecrets(file, lines)
    \o checkInsecureRandomness(file, lines)
    \o checkPathTraversal(file, lines)
    \o checkCommandInjection(file, lines)

\* ------------------------------------------------------------------------
\* PerformanceAnalyzer
\* ------------------------------------------------------------------------
\* /\b(for|while|forEach|map|filter|reduce)\b/i
loopPattern ==
  << WordB,
     Alt({<<"f", "o", "r">>, <<"w", "h", "i", "l", "e">>, <<"f", "o", "r", "E", "a", "c", "h">>, <<"m", "a", "p">>, <<"f", "i", "l", "t", "e", "r">>, <<"r", "e", "d", "u", "c", "e">>}),
     WordB >>

\* The lines.forEach of checkNestedLoops from 0-based line index on, with the
\* running nestedLevel and the length of loopStack
RECURSIVE NestedLoopsFrom(_, _, _, _, _)
NestedLoopsFrom(file, lines, index, nestedLevel, stackLen) ==
  IF index >= Len(lines) THEN <<>>
  ELSE
    LET line     == lines[index + 1]
        isLoop   == Test(loopPattern, TRUE, line)
        level1   == IF isLoop THEN nestedLevel + 1 ELSE nestedLevel
        stack1   == IF isLoop THEN stackLen + 1 ELSE stackLen
        emitted  ==
          IF isLoop /\ level1 >= 3
          THEN << [id          |-> <<"nested-loops", index>>,
                   type        |-> "performance",
                   severity    |-> "medium",
                   title       |-> "Deeply Nested Loops",
                   description |-> DescArgs("Found ${nestedLevel} levels of nested loops, which can cause O(n^${nestedLevel}) complexity.", <<level1>>),
                   file        |-> file.path,
                   line        |-> index + 1,
                   suggestion  |-> "Consider optimizing with better algorithms, caching, or breaking down into smaller functions.",
                   impact      |-> "Poor performance with large datasets, potential for exponential time complexity.",
                   effort      |-> "high"] >>
          ELSE <<>>
        closes   == Trim(line) = <<"}">> /\ stack1 > 0
        level2   == IF closes THEN (IF level1 - 1 > 0 THEN level1 - 1 ELSE 0) ELSE level1
        stack2   == IF closes THEN stack1 - 1 ELSE stack1
    IN  emitted \o NestedLoopsFrom(file, lines, index + 1, level2, stack2)

checkNestedLoops(file, lines) == NestedLoopsFrom(file, lines, 0, 0, 0)

inefficientPatterns ==
  << \* /SELECT\s+\*\s+FROM/i
     << Lit(<<"S", "E", "L", "E", "C", "T">>), Plus("space"), Lit(<<"*">>), Plus("space"), Lit(<<"F", "R", "O", "M">>) >>,
     \* /\.find$$$$\s*\.find\(/i
     << Lit(<<".", "f", "i", "n", "d">>), End, End, End, End, Star("space"), Lit(<<".", "f", "i", "n", "d", "(">>) >>,
     \* /\.filter$$$$\s*\.filter\(/i
     << Lit(<<".", "f", "i", "l", "t", "e", "r">>), End, End, End, End, Star("space"), Lit(<<".", "f", "i", "l", "t", "e", "r", "(">>) >>,
     \* /for.*in.*for.*in/i
     << Lit(<<"f", "o", "r">>), Star("any"), Lit(<<"i", "n">>), Star("any"), Lit(<<"f", "o", "r">>),
        Star("any"), Lit(<<"i", "n">>) >> >>

checkInefficientQueries(file, lines) ==
  LET hits == Hits(lines, inefficientPatterns, TRUE) IN
  [h \in 1..Len(hits) |->
     [id          |-> <<"inefficient-query", hits[h].index>>,
      type        |-> "performance",
      severity    |-> "medium",
      title       |-> "Inefficient Query Pattern",
      description |-> Desc("Detected potentially inefficient data access pattern."),
      file        |-> file.path,
      line        |-> hits[h].index + 1,
      suggestion  |-> "Optimize queries by selecting specific fields, using indexes, or combining operations.",
      impact      |-> "Slower query execution and increased resource usage.",
      effort      |-> "medium"]]

memoryLeakPatterns ==
  << \* /setInterval\s*\(/i
     << Lit(<<"s", "e", "t", "I", "n", "t", "e", "r", "v", "a", "l">>), Star("space"), Lit(<<"(">>) >>,
     \* /addEventListener\s*\(/i
     << Lit(<<"a", "d", "d", "E", "v", "e", "n", "t", "L", "i", "s", "t", "e", "n", "e", "r">>), Star("space"), Lit(<<"(">>) >>,
     \* /new\s+Array\s*$$\s*\d{6,}\s*$$/i
     << Lit(<<"n", "e", "w">>), Plus("space"), Lit(<<"A", "r", "r", "a", "y">>), Star("space"), End, End,
        Star("space"), Cls("digit", 6, Unbounded), Star("space"), End, End >>,
     \* /global\./i
     << Lit(<<"g", "l", "o", "b", "a", "l", ".">>) >> >>

\* /setInterval|addEventListener/   (case-sensitive)
timerPattern == << Alt({<<"s", "e", "t", "I", "n", "t", "e", "r", "v", "a", "l">>, <<"a", "d", "d", "E", "v", "e", "n", "t", "L", "i", "s", "t", "e", "n", "e", "r">>}) >>

checkMemoryLeaks(file, lines) ==
  LET hits == Hits(lines, memoryLeakPatterns, TRUE)
      isTimer(h) == Test(timerPattern, FALSE, lines[h.index + 1])
  IN
  [h \in 1..Len(hits) |->
     [id          |-> <<"memory-leak", hits[h].index>>,
      type        |-> "performance",
      severity    |-> IF isTimer(hits[h]) THEN "medium" ELSE "low",
      title       |-> IF isTimer(hits[h]) THEN "Event Listener/Timer Not Cleaned Up"
                                          ELSE "Potential Memory Leak",
      description |-> Desc("Code pattern that could lead to memory leaks detected."),
      file        |-> file.path,
      line        |-> hits[h].index + 1,
      suggestion  |-> IF isTimer(hits[h]) THEN "Add corresponding clearInterval/removeEventListener calls."
                                          ELSE "Ensure proper cleanup of resources.",
      impact      |-> "Gradual memory consumption increase, potential application crashes.",
      effort      |-> "low"]]

syncPatterns ==
  << \* /readFileSync\s*\(/i
     << Lit(<<"r", "e", "a", "d", "F", "i", "l", "e", "S", "y", "n", "c">>), Star("space"), Lit(<<"(">>) >>,
     \* /writeFileSync\s*\(/i
     << Lit(<<"w", "r", "i", "t", "e", "F", "i", "l", "e", "S", "y", "n", "c">>), Star("space"), Lit(<<"(">>) >>,
     \* /execSync\s*\(/i
     << Lit(<<"e", "x", "e", "c", "S", "y", "n", "c">>), Star("space"), Lit(<<"(">>) >>,
     \* /\.sync$$$$/i
     << Lit(<<".", "s", "y", "n", "c">>), End, End, End, End >> >>

checkSynchronousOperations(file, lines) ==
  LET hits == Hits(lines, syncPatterns, TRUE) IN
  [h \in 1..Len(hits) |->
     [id          |-> <<"sync-operation", hits[h].index>>,
      type        |-> "performance",
      severity    |-> "medium",
      title       |-> "Synchronous Operation",
      description |-> Desc("Blocking synchronous operation detected that could freeze the application."),
      file        |-> file.path,
      line        |-> hits[h].index + 1,
      suggestion  |-> "Replace with asynchronous alternatives using async/await or promises.",
      impact      |-> "Application blocking, poor user experience, reduced throughput.",
      effort      |-> "medium"]]

\* /\[([^\]]{200,})\]/
arrayLiteralPattern == << Lit(<<"[">>), Cls("notrbrack", 200, Unbounded), Lit(<<"]">>) >>

\* /\{([^}]{200,})\}/
objectLiteralPattern == << Lit(<<"{">>), Cls("notrbrace", 200, Unbounded), Lit(<<"}">>) >>

checkLargeDataStructures(file, lines) ==
  LET idx  == [k \in 1..Len(lines) |-> k - 1]
      hits == SelectSeq(idx, LAMBDA index :
                 \/ Test(arrayLiteralPattern, FALSE, lines[index + 1])
                 \/ Test(objectLiteralPattern, FALSE, lines[index + 1]))
  IN
  [h \in 1..Len(hits) |->
     [id          |-> <<"large-data-structure", hits[h]>>,
      type        |-> "performance",
      severity    |-> "low",
      title       |-> "Large Data Structure",
      description |-> Desc("Large inline data structure detected that could impact performance."),
      file        |-> file.path,
      line        |-> hits[h] + 1,
      suggestion  |-> "Consider loading data from external files or using lazy loading.",
      impact      |-> "Increased memory usage and slower initial load times.",
      effort      |-> "medium"]]

\* PerformanceAnalyzer.analyzeFile
PerformanceAnalyzeFile(file) ==
  LET lines == file.content IN
       checkNestedLoops(file, lines)
    \o checkInefficientQueries(file, lines)
    \o checkMemoryLeaks(file, lines)
    \o checkSynchronousOperations(file, lines)
    \o checkLargeDataStructures(file, lines)

\* ------------------------------------------------------------------------
\* ComplexityAnalyzer
\* ------------------------------------------------------------------------
\* /\b(?:function|def|class)\s+(\w+)/
functionPattern ==
  << WordB, Alt({<<"f", "u", "n", "c", "t", "i", "o", "n">>, <<"d", "e", "f">>, <<"c", "l", "a", "s", "s">>}), Plus("space"), Plus("word") >>

\* The longest run of characters of class cls that starts at pos
RECURSIVE TakeWhile(_, _, _)
TakeWhile(cls, line, pos) ==
  IF pos <= Len(line) /\ InClass(cls, line[pos])
  THEN <<line[pos]>> \o TakeWhile(cls, line, pos + 1)
  ELSE <<>>

\* functionMatch[1]: the (\w+) group of the leftmost match of functionPattern
FunctionName(line) ==
  LET starts == {pos \in 1..Len(line) : MatchAt(functionPattern, FALSE, line, 1, pos)}
      start  == CHOOSE pos \in starts : \A q \in starts : pos <= q
      kw     == CHOOSE o \in functionPattern[2].opts : LitAt(FALSE, line, start, o)
      spaces == TakeWhile("space", line, start + Len(kw))
  IN  TakeWhile("word", line, start + Len(kw) + Len(spaces))

\* currentFunction = null
NoFunction == [open |-> FALSE, name |-> <<>>, startLine |-> 0, count |-> 0]

\* The lines.forEach of checkFunctionLength from 0-based line index on;
\* cur is currentFunction (count is its lineCount)
RECURSIVE FunctionLengthFrom(_, _, _, _, _)
FunctionLengthFrom(file, lines, index, cur, braceCount) ==
  IF index >= Len(lines) THEN <<>>
  ELSE
    LET line   == lines[index + 1]
        opens  == Test(functionPattern, FALSE, line) /\ ~cur.open
        cur1   == IF opens
                  THEN [open |-> TRUE, name |-> FunctionName(line),
                        startLine |-> index, count |-> 0]
                  ELSE cur
        brace1 == IF opens THEN 0 ELSE braceCount
        cur2   == [cur1 EXCEPT !.count = @ + 1]
        brace2 == brace1 + CountChar(line, "{") - CountChar(line, "}")
        ends   == brace2 <= 0 /\ cur2.count > 1
        emitted ==
          IF cur1.open /\ ends /\ cur2.count > 50
          THEN << [id          |-> <<"long-function", cur2.startLine>>,
                   type        |-> "complexity",
                   severity    |-> IF cur2.count > 100 THEN "high" ELSE "medium",
                   title       |-> "Long Function",
                   description |-> DescArgs("Function '${name}' is ${lineCount} lines long.", <<cur2.name, cur2.count>>),
                   file        |-> file.path,
                   line        |-> cur2.startLine + 1,
                   suggestion  |-> "Break down large functions into smaller, more focused functions.",
                   impact      |-> "Long functions are harder to understand, test, and maintain.",
                   effort      |-> "medium"] >>
          ELSE <<>>
    IN  IF cur1.open
        THEN emitted \o FunctionLengthFrom(file, lines, index + 1,
                                           IF ends THEN NoFunction ELSE cur2, brace2)
        ELSE FunctionLengthFrom(file, lines, index + 1, cur1, brace1)

checkFunctionLength(file, lines) == FunctionLengthFrom(file, lines, 0, NoFunction, 0)

\* /\b(if|else|while|for|switch|case|catch|&&|\|\||\?|try)\b/g
complexityPatterns ==
  << WordB,
     Alt({<<"i", "f">>, <<"e", "l", "s", "e">>, <<"w", "h", "i", "l", "e">>, <<"f", "o", "r">>, <<"s", "w", "i", "t", "c", "h">>, <<"c", "a", "s", "e">>, <<"c", "a", "t", "c", "h">>,
          <<"&", "&">>, <<"|", "|">>, <<"?">>, <<"t", "r", "y">>}),
     WordB >>

\* (line.match(pat) || []).length for a /g pattern whose matches cannot overlap
\* (every match of complexityPatterns lies between two word boundaries)
CountMatches(pat, ci, line) ==
  Cardinality({pos \in 1..Len(line) : MatchAt(pat, ci, line, 1, pos)})

\* The lines.forEach of checkCyclomaticComplexity; count is complexity
RECURSIVE CyclomaticFrom(_, _, _, _, _)
CyclomaticFrom(file, lines, index, cur, braceCount) ==
  IF index >= Len(lines) THEN <<>>
  ELSE
    LET line   == lines[index + 1]
        opens  == Test(functionPattern, FALSE, line) /\ ~cur.open
        cur1   == IF opens
                  THEN [open |-> TRUE, name |-> FunctionName(line),
                        startLine |-> index, count |-> 1]
                  ELSE cur
        brace1 == IF opens THEN 0 ELSE braceCount
        cur2   == [cur1 EXCEPT !.count = @ + CountMatches(complexityPatterns, FALSE, line)]
        brace2 == brace1 + CountChar(line, "{") - CountChar(line, "}")
        ends   == brace2 <= 0 /\ cur2.count > 1
        emitted ==
          IF cur1.open /\ ends /\ cur2.count > 10
          THEN << [id          |-> <<"high-complexity", cur2.startLine>>,
                   type        |-> "complexity",
                   severity    |-> IF cur2.count > 20 THEN "high" ELSE "medium",
                   title       |-> "High Cyclomatic Complexity",
                   description |-> DescArgs("Function '${name}' has cyclomatic complexity of ${complexity}.", <<cur2.name, cur2.count>>),
                   file        |-> file.path,
                   line        |-> cur2.startLine + 1,
                   suggestion  |-> "Reduce complexity by extracting methods, using early returns, or simplifying conditional logic.",
                   impact      |-> "High complexity makes code harder to understand and test.",
                   effort      |-> "high"] >>
          ELSE <<>>
    IN  IF cur1.open
        THEN emitted \o CyclomaticFrom(file, lines, index + 1,
                                       IF ends THEN NoFunction ELSE cur2, brace2)
        ELSE CyclomaticFrom(file, lines, index + 1, cur1, brace1)

checkCyclomaticComplexity(file, lines) == CyclomaticFrom(file, lines, 0, NoFunction, 0)

\* /\{|\bif\b|\bfor\b|\bwhile\b|\btry\b/
nestingKeywordPattern ==
  << WordB, Alt({<<"i", "f">>, <<"f", "o", "r">>, <<"w", "h", "i", "l", "e">>, <<"t", "r", "y">>}), WordB >>

OpensNesting(line) ==
  Includes(line, <<"{">>) \/ Test(nestingKeywordPattern, FALSE, line)

\* The lines.forEach of checkNestingDepth: [maxDepth, currentDepth, deepestLine]
\* after the lines from 0-based index on
RECURSIVE NestingFrom(_, _, _)
NestingFrom(lines, index, st) ==
  IF index >= Len(lines) THEN st
  ELSE
    LET line   == lines[index + 1]
        depth1 == IF OpensNesting(line) THEN st.currentDepth + 1 ELSE st.currentDepth
        deeper == OpensNesting(line) /\ depth1 > st.maxDepth
        depth2 == IF Includes(line, <<"}">>)
                  THEN (IF depth1 - 1 > 0 THEN depth1 - 1 ELSE 0)
                  ELSE depth1
    IN  NestingFrom(lines, index + 1,
                    [maxDepth     |-> IF deeper THEN depth1 ELSE st.maxDepth,
                     currentDepth |-> depth2,
                     deepestLine  |-> IF deeper THEN index ELSE st.deepestLine])

checkNestingDepth(file, lines) ==
  LET st == NestingFrom(lines, 0, [maxDepth |-> 0, currentDepth |-> 0, deepestLine |-> 0])
  IN  IF st.maxDepth > 4
      THEN << [id          |-> <<"deep-nesting", st.deepestLine>>,
               type        |-> "complexity",
               severity    |-> IF st.maxDepth > 6 THEN "high" ELSE "medium",
               title       |-> "Deep Nesting",
               description |-> DescArgs("Maximum nesting depth of ${maxDepth} detected.", <<st.maxDepth>>),
               file        |-> file.path,
               line        |-> st.deepestLine + 1,
               suggestion  |-> "Reduce nesting by using early returns, extracting functions, or guard clauses.",
               impact      |-> "Deep nesting makes code harder to read and understand.",
               effort      |-> "medium"] >>
      ELSE <<>>

\* /\b(?:function|def)\s+(\w+)\s*$$([^)]*)$$/
parameterPattern ==
  << WordB, Alt({<<"f", "u", "n", "c", "t", "i", "o", "n">>, <<"d", "e", "f">>}), Plus("space"), Plus("word"),
     Star("space"), End, End, Star("notrparen"), End, End >>

\* functionMatch[2]: the ([^)]*) group stands between two end-of-line anchors,
\* so whenever parameterPattern matches it has captured the empty string
ParameterGroup(line) == <<>>

\* s.split(",").filter((p) => p.trim().length > 0).length, scanning s from
\* position pos; inPiece says whether the current piece has a non-space character
RECURSIVE CountParams(_, _, _)
CountParams(s, pos, inPiece) ==
  IF pos > Len(s) THEN (IF inPiece THEN 1 ELSE 0)
  ELSE IF s[pos] = "," THEN (IF inPiece THEN 1 ELSE 0) + CountParams(s, pos + 1, FALSE)
  ELSE CountParams(s, pos + 1, inPiece \/ ~IsSpace(s[pos]))

checkParameterCount(file, lines) ==
  LET idx    == [k \in 1..Len(lines) |-> k - 1]
      params(index) == CountParams(ParameterGroup(lines[index + 1]), 1, FALSE)
      hits   == SelectSeq(idx, LAMBDA index :
                   /\ Test(parameterPattern, FALSE, lines[index + 1])
                   /\ params(index) > 5)
  IN
  [h \in 1..Len(hits) |->
     [id          |-> <<"many-parameters", hits[h]>>,
      type        |-> "complexity",
      severity    |-> IF params(hits[h]) > 8 THEN "high" ELSE "medium",
      title       |-> "Too Many Parameters",
      description |-> DescArgs("Function '${name}' has ${params} parameters.", <<FunctionName(lines[hits[h] + 1]), params(hits[h])>>),
      file        |-> file.path,
      line        |-> hits[h] + 1,
      suggestion  |-> "Consider using an options object or breaking the function into smaller functions.",
      impact      |-> "Functions with many parameters are harder to use and maintain.",
      effort      |-> "medium"]]

\* ComplexityAnalyzer.analyzeFile
ComplexityAnalyzeFile(file) ==
  LET lines == file.content IN
       checkFunctionLength(file, lines)
    \o checkCyclomaticComplexity(file, lines)
    \o checkNestingDepth(file, lines)
    \o checkParameterCount(file, lines)

\* ------------------------------------------------------------------------
\* AIQualityAnalyzer.parseAIResponse
\*
\* The text returned by the model is a sequence of tokens:
\*   [t |-> "lbr"]  "["        [t |-> "rbr"]  "]"
\*   [t |-> "obj", v |-> o]    a JSON object; o is the record of the fields
\*                             the object has (an absent field is absent from
\*                             DOMAIN o)
\*   [t |-> "null"]            the JSON value null
\*   [t |-> "prose"]           any text without brackets that is not JSON
\* The commas between the elements of an array are not represented.
\* ------------------------------------------------------------------------
TokLbr == [t |-> "lbr"]

TokRbr == [t |-> "rbr"]

TokNull == [t |-> "null"]

TokProse == [t |-> "prose"]

TokObj(o) == [t |-> "obj", v |-> o]

\* response.match(/\[[\s\S]*\]/): from the first "[" to the last "]" after it
\* (the quantifier is greedy); <<>> stands for null (no match)
JsonMatch(response) ==
  LET opens  == {i \in 1..Len(response) : response[i].t = "lbr"}
      first  == CHOOSE i \in opens : \A j \in opens : i <= j
      closes == {i \in 1..Len(response) : response[i].t = "rbr" /\ i > first}
      last   == CHOOSE i \in closes : \A j \in closes : j <= i
  IN  IF opens = {} THEN <<>>
      ELSE IF closes = {} THEN <<>>
      ELSE SubSeq(response, first, last)

ParseFailure == [ok |-> FALSE, next |-> 0]

\* JSON.parse as a recursive descent over the tokens: the value that starts at
\* pos, and the items of an array up to and including its closing bracket
RECURSIVE ParseValue(_, _), ParseItems(_, _)
ParseValue(ts, pos) ==
  IF pos > Len(ts) THEN ParseFailure
  ELSE CASE ts[pos].t = "obj"  -> [ok |-> TRUE, val |-> [k |-> "obj", v |-> ts[pos].v],
                                   next |-> pos + 1]
         [] ts[pos].t = "null" -> [ok |-> TRUE, val |-> [k |-> "null"], next |-> pos + 1]
         [] ts[pos].t = "lbr"  ->
              LET r == ParseItems(ts, pos + 1) IN
              IF r.ok THEN [ok |-> TRUE, val |-> [k |-> "arr", items |-> r.items],
                            next |-> r.next]
                      ELSE ParseFailure
         [] OTHER -> ParseFailure

ParseItems(ts, pos) ==
  IF pos > Len(ts) THEN ParseFailure
  ELSE IF ts[pos].t = "rbr" THEN [ok |-> TRUE, items |-> <<>>, next |-> pos + 1]
  ELSE LET v == ParseValue(ts, pos) IN
       IF ~v.ok THEN ParseFailure
       ELSE LET rest == ParseItems(ts, v.next) IN
            IF rest.ok THEN [ok |-> TRUE, items |-> <<v.val>> \o rest.items,
                             next |-> rest.next]
                       ELSE ParseFailure

\* JSON.parse(text): [ok |-> FALSE] when it throws
JsonParse(text) ==
  LET r == ParseValue(text, 1) IN
  IF r.ok /\ r.next = Len(text) + 1 THEN [ok |-> TRUE, val |-> r.val]
                                    ELSE [ok |-> FALSE]

\* issue.<field> is truthy: the element is an object or an array (not null),
\* has the field, and the field's value is not the falsy value of its kind
\* ("" for text, 0 for a number)
Truthy(e, field, falsy) ==
  e.k = "obj" /\ field \in DOMAIN e.v /\ e.v[field] # falsy

\* files[0]?.path || "unknown"
FirstPathOrUnknown(files) ==
  IF files # <<>> /\ files[1].path # <<>> THEN files[1].path ELSE <<"u", "n", "k", "n", "o", "w", "n">>

\* The callback with "low" as the default of severity
MapAIIssueLowDefault(e, index, files, now) ==
  [id          |-> <<"ai", now, index>>,
   type        |-> IF Truthy(e, "type", "") THEN e.v.type ELSE "maintainability",
   severity    |-> IF Truthy(e, "severity", "") THEN e.v.severity ELSE "low",
   title       |-> IF Truthy(e, "title", "") THEN e.v.title ELSE "Code Quality Issue",
   description |-> IF Truthy(e, "description", "") THEN Desc(e.v.description)
                   ELSE Desc("Issue detected by AI analysis"),
   file        |-> IF Truthy(e, "file", <<>>) THEN e.v.file ELSE FirstPathOrUnknown(files),
   line        |-> IF Truthy(e, "line", 0) THEN e.v.line ELSE NoLine,
   suggestion  |-> IF Truthy(e, "suggestion", "") THEN e.v.suggestion
                   ELSE "Review and improve this code",
   impact      |-> IF Truthy(e, "impact", "") THEN e.v.impact ELSE "May affect code quality",
   effort      |-> IF Truthy(e, "effort", "") THEN e.v.effort ELSE "medium"]

\* The callback of issues.map at parseAIResponse; index is 0-based, now is the
\* reading of Date.now()
MapAIIssue(e, index, files, now) ==
  [id          |-> <<"ai", now, index>>,
   type        |-> IF Truthy(e, "type", "") THEN e.v.type ELSE "maintainability",
   severity    |-> IF Truthy(e, "severity", "") THEN e.v.severity ELSE "medium",
   title       |-> IF Truthy(e, "title", "") THEN e.v.title ELSE "Code Quality Issue",
   description |-> IF Truthy(e, "description", "") THEN Desc(e.v.description)
                   ELSE Desc("Issue detected by AI analysis"),
   file        |-> IF Truthy(e, "file", <<>>) THEN e.v.file ELSE FirstPathOrUnknown(files),
   line        |-> IF Truthy(e, "line", 0) THEN e.v.line ELSE NoLine,
   suggestion  |-> IF Truthy(e, "suggestion", "") THEN e.v.suggestion
                   ELSE "Review and improve this code",
   impact      |-> IF Truthy(e, "impact", "") THEN e.v.impact ELSE "May affect code quality",
   effort      |-> IF Truthy(e, "effort", "") THEN e.v.effort ELSE "medium"]

\* parseAIResponse: every failure inside the try block returns []
parseAIResponse(response, files, now) ==
  LET jsonMatch == JsonMatch(response)
      parsed    == JsonParse(jsonMatch)
      issues    == parsed.val.items
  IN  IF jsonMatch = <<>> THEN <<>>                    \* "No JSON found in AI response"
      ELSE IF ~parsed.ok THEN <<>>                     \* JSON.parse threw
      ELSE IF \E i \in 1..Len(issues) : issues[i].k = "null"
           THEN <<>>                                   \* TypeError reading a field of null
      ELSE [i \in 1..Len(issues) |-> MapAIIssue(issues[i], i - 1, files, now)]

\* ------------------------------------------------------------------------
\* AIQualityAnalyzer.analyzeTestCoverage and analyzeDocumentation
\* ------------------------------------------------------------------------
\* The filter predicate of testFiles
IsTestFile(f) ==
  \/ Includes(f.path, <<"t", "e", "s", "t">>)
  \/ Includes(f.path, <<"s", "p", "e", "c">>)
  \/ EndsWith(f.path, <<".", "t", "e", "s", "t", ".", "j", "s">>)
  \/ EndsWith(f.path, <<".", "t", "e", "s", "t", ".", "t", "s">>)
  \/ EndsWith(f.path, <<".", "s", "p", "e", "c", ".", "j", "s">>)
  \/ EndsWith(f.path, <<".", "s", "p", "e", "c", ".", "t", "s">>)

\* The comparison with <= in place of <
RatioAtMostThreshold(t, s) == s # 0 /\ 10 * t <= 3 * s

\* testFiles.length / sourceFiles.length < 0.3 on JavaScript numbers: a zero
\* divisor gives Infinity (the numerator is positive here), which is not below
\* 0.3; otherwise the quotient is below 0.3 exactly when 10 t < 3 s
RatioBelowThreshold(t, s) == s # 0 /\ 10 * t < 3 * s

analyzeTestCoverage(files) ==
  LET testFiles   == SelectSeq(files, IsTestFile)
      sourceFiles == SelectSeq(files, LAMBDA f : ~IsTestFile(f))
  IN  IF Len(testFiles) = 0
      THEN << [id          |-> <<"no-tests">>,
               type        |-> "testing",
               severity    |-> "high",
               title       |-> "No Test Files Found",
               description |-> Desc("No test files detected in the codebase."),
               file        |-> <<"p", "r", "o", "j", "e", "c", "t">>,
               line        |-> NoLine,
               suggestion  |-> "Add unit tests for your functions and components.",
               impact      |-> "Lack of tests makes it difficult to catch bugs and refactor safely.",
               effort      |-> "high"] >>
      ELSE IF RatioBelowThreshold(Len(testFiles), Len(sourceFiles))
      THEN << [id          |-> <<"low-test-coverage">>,
               type        |-> "testing",
               severity    |-> "medium",
               title       |-> "Low Test Coverage",
               description |-> DescArgs("Only ${Math.round(testRatio * 100)}% of source files have corresponding tests.",
                                        <<Len(testFiles), Len(sourceFiles)>>),
               file        |-> <<"p", "r", "o", "j", "e", "c", "t">>,
               line        |-> NoLine,
               suggestion  |-> "Increase test coverage by adding tests for untested modules.",
               impact      |-> "Insufficient testing increases the risk of bugs in production.",
               effort      |-> "high"] >>
      ELSE <<>>

\* One of the doc-comment markers looked for in the lines before a declaration
HasDocMarker(line) ==
  \/ Includes(line, <<"/", "*", "*">>)
  \/ Includes(line, <<"\"", "\"", "\"">>)
  \/ Includes(line, <<"/", "/", "/">>)

\* The 0-based indices of the declaration lines of a file that have no
\* doc-comment marker in the (up to) 3 lines before them
UndocumentedFunctions(lines) ==
  LET idx           == [k \in 1..Len(lines) |-> k - 1]
      functionLines == SelectSeq(idx, LAMBDA n : Test(functionPattern, FALSE, lines[n + 1]))
      from(n)       == IF n - 3 > 0 THEN n - 3 ELSE 0
  IN  SelectSeq(functionLines,
                LAMBDA n : ~\E q \in (from(n) + 1)..n : HasDocMarker(lines[q]))

RECURSIVE UndocumentedIssues(_, _)
UndocumentedIssues(files, k) ==
  IF k > Len(files) THEN <<>>
  ELSE
    LET file == files[k]
        undocumentedFunctions == UndocumentedFunctions(file.content)
    IN  (IF Len(undocumentedFunctions) > 0
         THEN << [id          |-> <<"undocumented-functions", file.path>>,
                  type        |-> "documentation",
                  severity    |-> "low",
                  title       |-> "Undocumented Functions",
                  description |-> DescArgs("${count} functions lack documentation in ${file.path}.",
                                           <<Len(undocumentedFunctions), file.path>>),
                  file        |-> file.path,
                  line        |-> undocumentedFunctions[1] + 1,
                  suggestion  |-> "Add JSDoc comments or docstrings to explain function purpose, parameters, and return values.",
                  impact      |-> "Makes code harder to understand and maintain.",
                  effort      |-> "low"] >>
         ELSE <<>>)
        \o UndocumentedIssues(files, k + 1)

analyzeDocumentation(files) ==
  LET hasReadme == \E k \in 1..Len(files) : Includes(ToLowerCase(files[k].path), <<"r", "e", "a", "d", "m", "e">>)
  IN  (IF ~hasReadme
       THEN << [id          |-> <<"no-readme">>,
                type        |-> "documentation",
                severity    |-> "medium",
                title       |-> "Missing README",
                description |-> Desc("No README file found in the project."),
                file        |-> <<"p", "r", "o", "j", "e", "c", "t">>,
                line        |-> NoLine,
                suggestion  |-> "Add a README.md file with project description, setup instructions, and usage examples.",
                impact      |-> "Makes it difficult for new developers to understand and contribute to the project.",
                effort      |-> "low"] >>
       ELSE <<>>)
      \o UndocumentedIssues(files, 1)

\* ------------------------------------------------------------------------
\* FileAnalyzer helpers used by the report
\* ------------------------------------------------------------------------
RECURSIVE getTotalLines(_)
getTotalLines(files) ==
  IF files = <<>> THEN 0 ELSE Len(Head(files).content) + getTotalLines(Tail(files))

\* Object.keys(getLanguageStats(files)): the distinct languages in order of
\* first occurrence
RECURSIVE LanguageKeys(_, _)
LanguageKeys(files, seen) ==
  IF files = <<>> THEN <<>>
  ELSE IF Head(files).language \in seen THEN LanguageKeys(Tail(files), seen)
  ELSE <<Head(files).language>>
       \o LanguageKeys(Tail(files), seen \cup {Head(files).language})

\* ------------------------------------------------------------------------
\* QualityEngine: metrics, severity breakdown, ordering, recommendations
\* ------------------------------------------------------------------------
CountType(issues, type) == Cardinality({i \in 1..Len(issues) : issues[i].type = type})

\* Math.round(n / d) for n >= 0 and d > 0 (halves round up)
RoundRatio(n, d) == (2 * n + d) \div (2 * d)

Min(a, b) == IF a <= b THEN a ELSE b

Max(a, b) == IF a >= b THEN a ELSE b

\* calculateMetrics with the clamp of the duplication percentage left out
calculateMetricsUnclamped(files, issues) ==
  LET fileCount        == Len(files)
      complexityIssues == CountType(issues, "complexity")
      testIssues       == CountType(issues, "testing")
      duplication      == CountType(issues, "duplication")
  IN  [codeComplexity        |->
         IF 10 * complexityIssues >= 10 * fileCount THEN 10
         ELSE RoundRatio(10 * complexityIssues, fileCount),
       testCoverage          |-> Max(0, 100 - testIssues * 20),
       duplicationPercentage |-> duplication * 5,
       maintainabilityIndex  |->
         IF 100 * fileCount - 10 * Len(issues) <= 0 THEN 0
         ELSE RoundRatio(100 * fileCount - 10 * Len(issues), fileCount)]

\* calculateMetrics; files is non-empty (analyzeFiles has returned otherwise).
\* The quotients are kept exact: Math.min/Math.max are applied to the
\* fraction before Math.round, as in the code
calculateMetrics(files, issues) ==
  LET fileCount        == Len(files)
      complexityIssues == CountType(issues, "complexity")
      testIssues       == CountType(issues, "testing")
      duplication      == CountType(issues, "duplication")
  IN  [codeComplexity        |->
         IF 10 * complexityIssues >= 10 * fileCount THEN 10
         ELSE RoundRatio(10 * complexityIssues, fileCount),
       testCoverage          |-> Max(0, 100 - testIssues * 20),
       duplicationPercentage |-> Min(50, duplication * 5),
       maintainabilityIndex  |->
         IF 100 * fileCount - 10 * Len(issues) <= 0 THEN 0
         ELSE RoundRatio(100 * fileCount - 10 * Len(issues), fileCount)]

\* The keys getSeverityBreakdown starts from; they are the only keys that
\* ever hold a number
Severities == {"low", "medium", "high", "critical"}

\* The value of undefined++ and of NaN++
NaN == "NaN"

\* breakdown[issue.severity]++
IncrementSeverity(breakdown, severity) ==
  IF severity \in Severities THEN [breakdown EXCEPT ![severity] = @ + 1]
  ELSE IF severity \in DOMAIN breakdown THEN breakdown
  ELSE breakdown @@ (severity :> NaN)

RECURSIVE SeverityFold(_, _)
SeverityFold(breakdown, issues) ==
  IF issues = <<>> THEN breakdown
  ELSE SeverityFold(IncrementSeverity(breakdown, Head(issues).severity), Tail(issues))

getSeverityBreakdown(issues) ==
  SeverityFold([s \in Severities |-> 0], issues)

severityOrder == [critical |-> 4, high |-> 3, medium |-> 2, low |-> 1]

typePriority == [security |-> 4, performance |-> 3, complexity |-> 2, testing |-> 1]

\* typePriority[type] || 0
TypePriorityOf(type) == IF type \in DOMAIN typePriority THEN typePriority[type] ELSE 0

\* The comparator passed to issues.sort: a number, or NaN when a severity is
\* not a key of severityOrder (undefined - n is NaN, and NaN !== 0)
Comparator(a, b) ==
  IF a.severity \in DOMAIN severityOrder /\ b.severity \in DOMAIN severityOrder
  THEN LET severityDiff == severityOrder[b.severity] - severityOrder[a.severity] IN
       IF severityDiff # 0 THEN [nan |-> FALSE, v |-> severityDiff]
       ELSE [nan |-> FALSE, v |-> TypePriorityOf(b.type) - TypePriorityOf(a.type)]
  ELSE [nan |-> TRUE, v |-> 0]

\* What Array.prototype.sort makes of the comparator's result: NaN counts as 0
SortCompare(a, b) == LET r == Comparator(a, b) IN IF r.nan THEN 0 ELSE r.v

\* Array.prototype.sort as the engine of node runs it on arrays shorter than
\* 64 elements: the leading run is found (and reversed when strictly
\* descending), then every later element is placed by binary insertion.
RECURSIVE ExtendRun(_, _, _)
ExtendRun(a, idx, descending) ==
  IF idx > Len(a) THEN idx - 1
  ELSE LET order == SortCompare(a[idx], a[idx - 1]) IN
       IF descending
       THEN (IF order >= 0 THEN idx - 1 ELSE ExtendRun(a, idx + 1, descending))
       ELSE (IF order < 0 THEN idx - 1 ELSE ExtendRun(a, idx + 1, descending))

Reverse(s) == [i \in 1..Len(s) |-> s[Len(s) + 1 - i]]

\* The position at which pivot goes into the sorted prefix a[left..right-1]
RECURSIVE InsertionPoint(_, _, _, _)
InsertionPoint(a, pivot, left, right) ==
  IF left >= right THEN left
  ELSE LET mid == left + ((right - left) \div 2) IN
       IF SortCompare(pivot, a[mid]) < 0
       THEN InsertionPoint(a, pivot, left, mid)
       ELSE InsertionPoint(a, pivot, mid + 1, right)

RECURSIVE BinaryInsertionSort(_, _)
BinaryInsertionSort(a, start) ==
  IF start > Len(a) THEN a
  ELSE LET pivot == a[start]
           left  == InsertionPoint(a, pivot, 1, start)
       IN  BinaryInsertionSort(
             SubSeq(a, 1, left - 1) \o <<pivot>> \o SubSeq(a, left, start - 1)
               \o SubSeq(a, start + 1, Len(a)),
             start + 1)

ArraySort(a) ==
  IF Len(a) < 2 THEN a
  ELSE LET descending == SortCompare(a[2], a[1]) < 0
           runLength  == ExtendRun(a, 3, descending)
           withRun    == IF descending
                         THEN Reverse(SubSeq(a, 1, runLength)) \o SubSeq(a, runLength + 1, Len(a))
                         ELSE a
       IN  BinaryInsertionSort(withRun, runLength + 1)

prioritizeIssues(issues) == ArraySort(issues)

\* A test of presence that looks at the first issue only
HasTypeFirst(issues, type) == issues # <<>> /\ issues[1].type = type

\* issues.some((i) => i.type === type) and new Set(types).has(type)
HasType(issues, type) == \E i \in 1..Len(issues) : issues[i].type = type

\* generateRecommendations without the message for a list that stayed empty
generateRecommendationsNoFallback(issues) ==
     (IF HasType(issues, "security")
      THEN <<"Address security vulnerabilities immediately - they pose the highest risk">>
      ELSE <<>>)
  \o (IF HasType(issues, "performance")
      THEN <<"Optimize performance bottlenecks to improve user experience">>
      ELSE <<>>)
  \o (IF HasType(issues, "testing")
      THEN <<"Increase test coverage to catch bugs early and enable safe refactoring">>
      ELSE <<>>)
  \o (IF HasType(issues, "complexity")
      THEN <<"Refactor complex code to improve maintainability">>
      ELSE <<>>)
  \o (IF HasType(issues, "documentation")
      THEN <<"Improve documentation to help team members understand the codebase">>
      ELSE <<>>)

\* generateRecommendations (the texts without their leading pictograph)
generateRecommendations(issues) ==
  LET recommendations ==
           (IF HasType(issues, "security")
            THEN <<"Address security vulnerabilities immediately - they pose the highest risk">>
            ELSE <<>>)
        \o (IF HasType(issues, "performance")
            THEN <<"Optimize performance bottlenecks to improve user experience">>
            ELSE <<>>)
        \o (IF HasType(issues, "testing")
            THEN <<"Increase test coverage to catch bugs early and enable safe refactoring">>
            ELSE <<>>)
        \o (IF HasType(issues, "complexity")
            THEN <<"Refactor complex code to improve maintainability">>
            ELSE <<>>)
        \o (IF HasType(issues, "documentation")
            THEN <<"Improve documentation to help team members understand the codebase">>
            ELSE <<>>)
  IN  IF Len(recommendations) = 0
      THEN <<"Great job! Your code quality looks good overall">>
      ELSE recommendations

\* The report object built at the end of analyzeFiles
BuildReport(files, allIssues) ==
  [summary |-> [totalFiles        |-> Len(files),
                totalLines        |-> getTotalLines(files),
                languages         |-> LanguageKeys(files, {}),
                issueCount        |-> Len(allIssues),
                severityBreakdown |-> getSeverityBreakdown(allIssues)],
   issues          |-> prioritizeIssues(allIssues),
   metrics         |-> calculateMetrics(files, allIssues),
   recommendations |-> generateRecommendations(allIssues)]

\* ------------------------------------------------------------------------
\* CodeParser.findDuplicateBlocks
\* ------------------------------------------------------------------------
minBlockSize == 5

\* Array.prototype.join("\n")
RECURSIVE Join(_)
Join(ls) ==
  IF ls = <<>> THEN <<>>
  ELSE IF Len(ls) = 1 THEN ls[1]
  ELSE ls[1] \o <<"\n">> \o Join(Tail(ls))

\* lines.slice(i, i + minBlockSize).join("\n"); i is 0-based
Block(lines, i) == Join(SubSeq(lines, i + 1, Min(i + minBlockSize, Len(lines))))

\* The element pushed for the windows that start at i and j
DuplicateBlock(lines, i, j) ==
  [startLine   |-> i + 1,
   endLine     |-> i + minBlockSize,
   content     |-> Trim(Block(lines, i)),
   duplicateIn |-> << <<"Line ${j + 1}-${j + minBlockSize}", j + 1, j + minBlockSize>> >>]

\* The inner loop from j on
RECURSIVE CompareFrom(_, _, _)
CompareFrom(lines, i, j) ==
  IF ~(j < Len(lines) - minBlockSize) THEN <<>>
  ELSE (IF Trim(Block(lines, i)) = Trim(Block(lines, j))
        THEN <<DuplicateBlock(lines, i, j)>> ELSE <<>>)
       \o CompareFrom(lines, i, j + 1)

\* The outer loop from i on
RECURSIVE DuplicatesFrom(_, _)
DuplicatesFrom(lines, i) ==
  IF ~(i < Len(lines) - minBlockSize) THEN <<>>
  ELSE (IF Len(Trim(Block(lines, i))) < 50 THEN <<>>      \* Skip small blocks
        ELSE CompareFrom(lines, i, i + minBlockSize))
       \o DuplicatesFrom(lines, i + 1)

\* findDuplicateBlocks on the lines of content.split("\n")
findDuplicateBlocks(lines) == DuplicatesFrom(lines, 0)

\* ------------------------------------------------------------------------
\* AIQualityAnalyzer.createAnalysisPrompt
\* ------------------------------------------------------------------------
\* The number of characters of a file that go into the prompt
contentBudget == 2000

\* String.prototype.slice(0, n)
SliceFromStart(s, n) == SubSeq(s, 1, Min(n, Len(s)))

\* The content of a file put into the prompt without the slice
PromptContentWhole(content) ==
  content \o <<" ">> \o (IF Len(content) > contentBudget THEN <<".", ".", ".">> ELSE <<>>)

\* ${file.content.slice(0, 2000)} ${file.content.length > 2000 ? "..." : ""}
PromptContent(content) ==
  SliceFromStart(content, contentBudget) \o <<" ">>
    \o (IF Len(content) > contentBudget THEN <<".", ".", ".">> ELSE <<>>)

\* The part of the prompt written for one file; file.content is the text of
\* the file, its lines joined by newlines
PromptFileSection(file) ==
  << <<"File: ${path} (${language})", file.path, file.language>>,
     <<"${fence}${language}", file.language>>,
     <<"${content}", PromptContent(Join(file.content))>>,
     <<"${fence}">> >>

RECURSIVE PromptFileSections(_)
PromptFileSections(fs) ==
  IF fs = <<>> THEN <<>>
  ELSE PromptFileSection(Head(fs))
       \o (IF Len(fs) > 1 THEN << <<"">> >> ELSE <<>>)
       \o PromptFileSections(Tail(fs))

\* createAnalysisPrompt: the instructions, the sections of the files of the
\* batch, the closing line
createAnalysisPrompt(fs) ==
     << <<"You are a senior code reviewer analyzing the following code files for quality issues.">>,
        <<"Format your response as JSON array of issues:">>,
        <<"Files to analyze:">> >>
  \o PromptFileSections(fs)
  \o << <<"Focus on real, actionable issues that would help developers improve their code quality.">> >>

\* ------------------------------------------------------------------------
\* Inputs of the analysis: source files and model responses
\* ------------------------------------------------------------------------
CodeFile(path, language, content) ==
  [path |-> path, language |-> language, content |-> content, size |-> 0]

\* A JavaScript unit whose only line builds a query by concatenation after
\* the FROM clause
FileQuery ==
  CodeFile(<<"d", "b", ".", "j", "s">>, "javascript",
           << <<"q", "u", "e", "r", "y", "(", "\"", "S", "E", "L", "E", "C", "T", " ", "*", " ", "F", "R", "O", "M", " ", "u", "s", "e", "r", "s", " ", "W", "H", "E", "R", "E", " ", "i", "d", "=", "\"", " ", "+", " ", "i", "d", ")">> >>)

\* A unit in which the concatenation stands between SELECT and FROM, with an
\* undocumented function around it
FileConcat ==
  CodeFile(<<"s", "r", "c", "/", "r", "e", "p", "o", "r", "t", ".", "t", "s">>, "typescript",
           << <<"f", "u", "n", "c", "t", "i", "o", "n", " ", "l", "o", "a", "d", "(", "c", "o", "l", "s", ")", " ", "{">>,
              <<" ", " ", "r", "e", "t", "u", "r", "n", " ", "r", "u", "n", "(", "\"", "S", "E", "L", "E", "C", "T", " ", "\"", " ", "+", " ", "c", "o", "l", "s", " ", "+", " ", "\"", " ", "F", "R", "O", "M", " ", "t", "\"", ")">>,
              <<"}">> >>)

\* A test file with a documented function and a timer
FileTest ==
  CodeFile(<<"d", "b", ".", "t", "e", "s", "t", ".", "j", "s">>, "javascript",
           << <<"/", "*", "*", " ", "c", "h", "e", "c", "k", "s", " ", "t", "h", "e", " ", "t", "i", "m", "e", "r", " ", "*", "/">>,
              <<"f", "u", "n", "c", "t", "i", "o", "n", " ", "t", "i", "c", "k", "(", ")", " ", "{", " ", "s", "e", "t", "I", "n", "t", "e", "r", "v", "a", "l", "(", "r", "u", "n", ",", " ", "1", "0", ")", " ", "}">> >>)

\* A python unit that counts as the README of the project
FileReadme ==
  CodeFile(<<"d", "o", "c", "s", "/", "R", "e", "a", "d", "m", "e", ".", "p", "y">>, "python", << <<>> >>)

\* A unit whose path is the empty string, with the line of FileQuery
FileNoPath == CodeFile(<<>>, "javascript", FileQuery.content)

CandidateFiles == {FileQuery, FileConcat, FileTest, FileReadme, FileNoPath}

MaxFiles == 4

RECURSIVE SeqsUpTo(_, _)
SeqsUpTo(S, n) ==
  IF n = 0 THEN {<<>>}
  ELSE LET shorter == SeqsUpTo(S, n - 1) IN
       shorter \cup {Append(s, x) : s \in {t \in shorter : Len(t) = n - 1}, x \in S}

\* The unit sets handed to analyzeFiles: up to MaxFiles files, no file twice
FileSets ==
  {fs \in SeqsUpTo(CandidateFiles, MaxFiles) :
     \A i, j \in 1..Len(fs) : i # j => fs[i] # fs[j]}

\* Issue objects a model response may hold
\* an object with none of the fields the extractor reads
ObjEmpty == [note |-> "nothing to report"]

ObjFull ==
  [type |-> "performance", severity |-> "critical", title |-> "Slow loop",
   description |-> "The loop is quadratic", file |-> <<"d", "b", ".", "j", "s">>, line |-> 7,
   suggestion |-> "Use a map", impact |-> "Slow", effort |-> "high"]

ObjUrgentTesting ==
  [type |-> "testing", severity |-> "urgent", title |-> "Untested branch"]

ObjUrgentSecurity ==
  [type |-> "security", severity |-> "urgent", title |-> "Open redirect",
   file |-> <<"l", "i", "b", "/", "o", "t", "h", "e", "r", ".", "j", "s">>]

ObjFalsy ==
  [type |-> "duplication", severity |-> "low", title |-> "", line |-> 0,
   file |-> <<>>, effort |-> ""]

\* The texts the model is taken to answer with in the pipeline
Responses ==
  { <<TokProse>>,                                             \* no array at all
    <<TokProse, TokLbr>>,                                     \* "[" never closed
    <<TokLbr, TokProse, TokRbr>>,                             \* brackets around non-JSON
    <<TokLbr, TokNull, TokRbr>>,                              \* [null]
    <<TokLbr, TokObj(ObjFull), TokRbr, TokProse, TokLbr, TokRbr>>, \* two arrays
    <<TokLbr, TokRbr>>,                                       \* []
    <<TokLbr, TokObj(ObjFalsy), TokObj(ObjFull), TokRbr>>,
    <<TokLbr, TokObj(ObjUrgentTesting), TokObj(ObjUrgentSecurity), TokRbr>> }

\* ------------------------------------------------------------------------
\* State
\* ------------------------------------------------------------------------
VARIABLES
  hasClient,     \* AIQualityAnalyzer.geminiClient is not null
  clock,         \* the reading of Date.now()
  pc,            \* where the analyzeFiles call stands
  files,         \* its argument
  allIssues,     \* its local allIssues
  aiIssues,      \* the local issues of analyzeCodeQuality
  batchStart,    \* the loop variable i of analyzeCodeQuality
  batchResponse, \* how the await of the latest analyzeBatch ended
  report,        \* the value analyzeFiles returned
  error,         \* the message of the Error analyzeFiles threw
  modelCalls,    \* calls of GeminiClient.analyzeCode issued so far
  detectorRuns   \* calls of a detector's analyzeFile made so far

pipelineVars ==
  <<hasClient, clock, pc, files, allIssues, aiIssues, batchStart, batchResponse,
    report, error, modelCalls, detectorRuns>>

\* The await of analyzeBatch has not ended (or analyzeBatch is not running)
NoOutcome == [kind |-> "none"]

\* geminiClient.analyzeCode threw
Thrown == [kind |-> "thrown"]

\* geminiClient.analyzeCode returned text
Returned(text) == [kind |-> "text", text |-> text]

\* What process.env.GEMINI_API_KEY can hold: nothing, the empty text, a key
NoKey == [set |-> FALSE]
EnvKey(text) == [set |-> TRUE, text |-> text]
ApiKeys == {NoKey, EnvKey(""), EnvKey("key")}

\* getGeminiApiKey: throws when the variable is unset or empty
getGeminiApiKey(apiKey) ==
  IF ~apiKey.set \/ apiKey.text = "" THEN Thrown ELSE Returned(apiKey.text)

\* new GeminiClient(): the throw of getGeminiApiKey leaves the constructor
NewGeminiClient(apiKey) ==
  IF getGeminiApiKey(apiKey) = Thrown THEN Thrown ELSE [kind |-> "client"]

\* new AIQualityAnalyzer(): the client, or null when its constructor threw;
\* the value is whether this.geminiClient is not null
NewAIQualityAnalyzer(apiKey) ==
  NewGeminiClient(apiKey) # Thrown

NoReport == [none |-> TRUE]

NoError == ""

MaxClock == 1

batchSize == 3

\* files.slice(i, i + batchSize)
Batch(fs, i) == SubSeq(fs, i + 1, Min(i + batchSize, Len(fs)))

\* The body of the "Static analysis" loop of analyzeFiles
RECURSIVE StaticIssues(_)
StaticIssues(fs) ==
  IF fs = <<>> THEN <<>>
  ELSE    SecurityAnalyzeFile(Head(fs))
       \o PerformanceAnalyzeFile(Head(fs))
       \o ComplexityAnalyzeFile(Head(fs))
       \o StaticIssues(Tail(fs))

VARIABLES
  sessions,      \* WebQAInterface.sessions: session id -> the QASession object
  sessionKeys,   \* the keys of that Map in insertion order
  heap,          \* the QASession objects: object id -> its context
  pending,       \* askQuestion calls suspended at the model call
  response,      \* the HTTP response of the latest finished request
  qaCalls        \* calls of GeminiClient.askQuestion issued so far

qaVars == <<sessions, sessionKeys, heap, pending, response, qaCalls>>

VARIABLES
  fnName,        \* the function applied last
  fnArgs,        \* its arguments
  fnResult       \* its result

fnVars == <<fnName, fnArgs, fnResult>>

vars == <<pipelineVars, qaVars, fnVars>>

\* ------------------------------------------------------------------------
\* QualityEngine.analyzeFiles, one action per stretch of code between two
\* points where the call can be suspended
\* ------------------------------------------------------------------------
\* analyzeFiles without the check of files.length: the pipeline is entered
\* with no unit
AnalyzeFilesNoEmptyCheck ==
  /\ pc = "idle"
  /\ files' = <<>>
  /\ allIssues' = <<>>
  /\ aiIssues' = <<>>
  /\ batchStart' = 0
  /\ pc' = "batch"
  /\ UNCHANGED <<hasClient, clock, batchResponse, report, error, modelCalls,
                 detectorRuns>>
  /\ UNCHANGED <<qaVars, fnVars>>

\* files.length === 0: throw new Error("No supported code files provided")
AnalyzeFilesEmpty ==
  /\ pc = "idle"
  /\ pc' = "failed"
  /\ files' = <<>>
  /\ error' = "No supported code files provided"
  /\ UNCHANGED <<hasClient, clock, allIssues, aiIssues, batchStart, batchResponse,
                 report, modelCalls, detectorRuns>>
  /\ UNCHANGED <<qaVars, fnVars>>

\* analyzeFiles with the CodeParser run on every unit next to the detectors,
\* its duplicate blocks reported as an issue of the unit
AnalyzeFilesStartWithParser(fs) ==
  /\ pc = "idle"
  /\ Len(fs) # 0
  /\ files' = fs
  /\ allIssues' = StaticIssues(fs) \o
       [k \in 1..Len(fs) |->
          [id          |-> <<"duplicate-blocks", k - 1>>,
           type        |-> "duplication",
           severity    |-> "low",
           title       |-> "Duplicate Blocks",
           description |-> DescArgs("${count} duplicate blocks.",
                                    <<Len(findDuplicateBlocks(fs[k].content))>>),
           file        |-> fs[k].path,
           line        |-> NoLine,
           suggestion  |-> "Extract the repeated lines.",
           impact      |-> "Repeated code is changed in one place only.",
           effort      |-> "medium"]]
  /\ detectorRuns' = detectorRuns + 3 * Len(fs)
  /\ aiIssues' = <<>>
  /\ batchStart' = 0
  /\ pc' = "batch"
  /\ UNCHANGED <<hasClient, clock, batchResponse, report, error, modelCalls>>
  /\ UNCHANGED <<qaVars, fnVars>>

\* The static analysis loop, up to the call of analyzeCodeQuality
AnalyzeFilesStart(fs) ==
  /\ pc = "idle"
  /\ Len(fs) # 0
  /\ files' = fs
  /\ allIssues' = StaticIssues(fs)
  /\ detectorRuns' = detectorRuns + 3 * Len(fs)
  /\ aiIssues' = <<>>
  /\ batchStart' = 0
  /\ pc' = "batch"
  /\ UNCHANGED <<hasClient, clock, batchResponse, report, error, modelCalls>>
  /\ UNCHANGED <<qaVars, fnVars>>

\* analyzeBatch that calls the model although there is no client
AnalyzeBatchSkipCalls ==
  /\ pc = "batch"
  /\ batchStart < Len(files)
  /\ ~hasClient
  /\ modelCalls' = modelCalls + 1
  /\ batchStart' = batchStart + batchSize
  /\ UNCHANGED <<hasClient, clock, pc, files, allIssues, aiIssues, batchResponse,
                 report, error, detectorRuns>>
  /\ UNCHANGED <<qaVars, fnVars>>

\* analyzeBatch without a client: return []
AnalyzeBatchSkip ==
  /\ pc = "batch"
  /\ batchStart < Len(files)
  /\ ~hasClient
  /\ batchStart' = batchStart + batchSize
  /\ UNCHANGED <<hasClient, clock, pc, files, allIssues, aiIssues, batchResponse,
                 report, error, modelCalls, detectorRuns>>
  /\ UNCHANGED <<qaVars, fnVars>>

\* analyzeBatch: await this.geminiClient.analyzeCode(prompt)
AnalyzeBatchCall ==
  /\ pc = "batch"
  /\ batchStart < Len(files)
  /\ hasClient
  /\ modelCalls' = modelCalls + 1
  /\ batchResponse' = NoOutcome
  /\ pc' = "awaiting"
  /\ UNCHANGED <<hasClient, clock, files, allIssues, aiIssues, batchStart, report,
                 error, detectorRuns>>
  /\ UNCHANGED <<qaVars, fnVars>>

\* The model call throws and analyzeBatch has no try block: the error leaves
\* analyzeCodeQuality and analyzeFiles
ModelCallFailsUncaught ==
  /\ pc = "awaiting"
  /\ batchResponse' = Thrown
  /\ error' = "AI analysis failed"
  /\ pc' = "failed"
  /\ UNCHANGED <<hasClient, clock, files, allIssues, aiIssues, batchStart, report,
                 modelCalls, detectorRuns>>
  /\ UNCHANGED <<qaVars, fnVars>>

\* The model call throws: caught in analyzeBatch, which returns []
ModelCallFails ==
  /\ pc = "awaiting"
  /\ batchResponse' = Thrown
  /\ batchStart' = batchStart + batchSize
  /\ pc' = "batch"
  /\ UNCHANGED <<hasClient, clock, files, allIssues, aiIssues, report, error,
                 modelCalls, detectorRuns>>
  /\ UNCHANGED <<qaVars, fnVars>>

\* The model call returns text r and the issues of the batch are put in front
\* of those of the earlier batches
ModelCallReturnsInFront(r, now) ==
  /\ pc = "awaiting"
  /\ now >= clock
  /\ clock' = now
  /\ batchResponse' = Returned(r)
  /\ aiIssues' = parseAIResponse(r, Batch(files, batchStart), now) \o aiIssues
  /\ batchStart' = batchStart + batchSize
  /\ pc' = "batch"
  /\ UNCHANGED <<hasClient, files, allIssues, report, error, modelCalls, detectorRuns>>
  /\ UNCHANGED <<qaVars, fnVars>>

\* The model call returns text r, parsed while the clock reads now
ModelCallReturns(r, now) ==
  /\ pc = "awaiting"
  /\ now >= clock
  /\ clock' = now
  /\ batchResponse' = Returned(r)
  /\ aiIssues' = aiIssues \o parseAIResponse(r, Batch(files, batchStart), now)
  /\ batchStart' = batchStart + batchSize
  /\ pc' = "batch"
  /\ UNCHANGED <<hasClient, files, allIssues, report, error, modelCalls, detectorRuns>>
  /\ UNCHANGED <<qaVars, fnVars>>

\* analyzeCodeQuality returns; allIssues.push(...aiIssues)
CollectAIIssues ==
  /\ pc = "batch"
  /\ batchStart >= Len(files)
  /\ allIssues' = allIssues \o aiIssues
  /\ batchResponse' = NoOutcome
  /\ pc' = "tests"
  /\ UNCHANGED <<hasClient, clock, files, aiIssues, batchStart, report, error,
                 modelCalls, detectorRuns>>
  /\ UNCHANGED <<qaVars, fnVars>>

\* analyzeTestCoverage is awaited and a report of the issues so far is handed
\* out before the documentation pass
CollectTestIssuesReportsEarly ==
  /\ pc = "tests"
  /\ allIssues' = allIssues \o analyzeTestCoverage(files)
  /\ report' = BuildReport(files, allIssues')
  /\ pc' = "docs"
  /\ UNCHANGED <<hasClient, clock, files, aiIssues, batchStart, batchResponse, error,
                 modelCalls, detectorRuns>>
  /\ UNCHANGED <<qaVars, fnVars>>

\* await this.aiAnalyzer.analyzeTestCoverage(files)
CollectTestIssues ==
  /\ pc = "tests"
  /\ allIssues' = allIssues \o analyzeTestCoverage(files)
  /\ pc' = "docs"
  /\ UNCHANGED <<hasClient, clock, files, aiIssues, batchStart, batchResponse, report, error,
                 modelCalls, detectorRuns>>
  /\ UNCHANGED <<qaVars, fnVars>>

\* await this.aiAnalyzer.analyzeDocumentation(files), then steps 3 to 5; the
\* sort of prioritizeIssues is in place, so allIssues ends up sorted too
ReturnReport ==
  /\ pc = "docs"
  /\ LET complete == allIssues \o analyzeDocumentation(files) IN
       /\ report' = BuildReport(files, complete)
       /\ allIssues' = prioritizeIssues(complete)
  /\ pc' = "done"
  /\ UNCHANGED <<hasClient, clock, files, aiIssues, batchStart, batchResponse, error, modelCalls,
                 detectorRuns>>
  /\ UNCHANGED <<qaVars, fnVars>>

\* The caller is done with the outcome; the engine is ready for another call
NextAnalysis ==
  /\ pc \in {"done", "failed"}
  /\ pc' = "idle"
  /\ files' = <<>>
  /\ allIssues' = <<>>
  /\ aiIssues' = <<>>
  /\ batchStart' = 0
  /\ batchResponse' = NoOutcome
  /\ report' = NoReport
  /\ error' = NoError
  /\ modelCalls' = 0
  /\ detectorRuns' = 0
  /\ clock' = 0
  /\ UNCHANGED hasClient
  /\ UNCHANGED <<qaVars, fnVars>>

\* ------------------------------------------------------------------------
\* QASession
\* ------------------------------------------------------------------------
\* An element of QAContext.conversationHistory
Turn(question, answer) == [question |-> question, answer |-> answer]

\* groupFilesByLanguage(files)[language]
FilesOfLanguage(fs, language) == SelectSeq(fs, LAMBDA f : f.language = language)

\* The lines buildContextualPrompt pushes for the issue at 0-based index
IssueLines(issue, index) ==
  << <<"${index + 1}. [${severity.toUpperCase()}] ${title}", index + 1, issue.severity,
       issue.title>>,
     <<"   File: ${file}${line}", issue.file, issue.line>>,
     <<"   Type: ${type}", issue.type>>,
     <<"   Description: ${description}", issue.description>>,
     <<"   Suggestion: ${suggestion}", issue.suggestion>>,
     <<"">> >>

RECURSIVE TopIssueLines(_, _)
TopIssueLines(issues, index) ==
  IF index >= Len(issues) THEN <<>>
  ELSE IssueLines(issues[index + 1], index) \o TopIssueLines(issues, index + 1)

\* The lines pushed for one language of the file structure overview
LanguageLines(fs, language) ==
  LET langFiles == FilesOfLanguage(fs, language)
      shown     == SubSeq(langFiles, 1, Min(5, Len(langFiles)))
  IN  << <<"${language}: ${count} files", language, Len(langFiles)>> >>
      \o [i \in 1..Len(shown) |-> <<"  - ${path}", shown[i].path>>]
      \o (IF Len(langFiles) > 5
          THEN << <<"  ... and ${count} more", Len(langFiles) - 5>> >>
          ELSE <<>>)

RECURSIVE FileStructureLines(_, _)
FileStructureLines(fs, languages) ==
  IF languages = <<>> THEN <<>>
  ELSE LanguageLines(fs, Head(languages)) \o FileStructureLines(fs, Tail(languages))

\* The whole conversation history instead of its last three turns
LastTurnsAll(history) == history

\* conversationHistory.slice(-3)
LastTurns(history) == SubSeq(history, Max(1, Len(history) - 2), Len(history))

\* The lines pushed for one turn: the answer is cut after 200 characters and
\* marked when it was longer
TurnLines(turn) ==
  << <<"Q: ${question}", turn.question>>,
     <<"A: ${answer}", SubSeq(turn.answer, 1, Min(200, Len(turn.answer))),
       IF Len(turn.answer) > 200 THEN "..." ELSE "">>,
     <<"">> >>

RECURSIVE HistoryLines(_)
HistoryLines(turns) ==
  IF turns = <<>> THEN <<>>
  ELSE TurnLines(Head(turns)) \o HistoryLines(Tail(turns))

\* Object.entries(severityBreakdown): the four initial keys in the order they
\* were written, then every key added later
RECURSIVE SetToSeq(_)
SetToSeq(S) ==
  IF S = {} THEN <<>>
  ELSE LET x == CHOOSE y \in S : TRUE IN <<x>> \o SetToSeq(S \ {x})

BreakdownEntries(breakdown) ==
  <<"low", "medium", "high", "critical">> \o SetToSeq(DOMAIN breakdown \ Severities)

\* buildContextualPrompt: the lines joined by "\n" at the end, kept as lines
buildContextualPrompt(rep, fs, history, question) ==
  LET entries == BreakdownEntries(rep.summary.severityBreakdown) IN
     << <<"=== CODE ANALYSIS REPORT ===">>,
        <<"Files analyzed: ${totalFiles}", rep.summary.totalFiles>>,
        <<"Total lines: ${totalLines}", rep.summary.totalLines>>,
        <<"Languages: ${languages}", rep.summary.languages>>,
        <<"Issues found: ${issueCount}", rep.summary.issueCount>>,
        <<"">>,
        <<"Issue Severity Breakdown:">> >>
  \o [i \in 1..Len(entries) |->
        <<"- ${severity}: ${count}", entries[i], rep.summary.severityBreakdown[entries[i]]>>]
  \o << <<"">>,
        <<"Quality Metrics:">>,
        <<"- Code Complexity: ${codeComplexity}/10", rep.metrics.codeComplexity>>,
        <<"- Test Coverage: ${testCoverage}%", rep.metrics.testCoverage>>,
        <<"- Code Duplication: ${duplicationPercentage}%", rep.metrics.duplicationPercentage>>,
        <<"- Maintainability Index: ${maintainabilityIndex}/100", rep.metrics.maintainabilityIndex>>,
        <<"">>,
        <<"Top Priority Issues:">> >>
  \o TopIssueLines(SubSeq(rep.issues, 1, Min(10, Len(rep.issues))), 0)
  \o << <<"File Structure:">> >>
  \o FileStructureLines(fs, LanguageKeys(fs, {}))
  \o << <<"">> >>
  \o (IF Len(history) > 0
      THEN << <<"Previous Conversation:">> >> \o HistoryLines(LastTurns(history))
      ELSE <<>>)

\* getSuggestedQuestions without the slice at the end
getSuggestedQuestionsUncapped(rep) ==
  LET has(type) == HasType(rep.issues, type)
  IN     << "What are the most critical issues I should fix first?",
            "How can I improve the overall code quality?",
            "What files need the most attention?" >>
      \o (IF has("security")
          THEN << "What security vulnerabilities were found?",
                  "How can I make my code more secure?" >> ELSE <<>>)
      \o (IF has("performance")
          THEN << "What performance issues should I address?",
                  "How can I optimize the slow parts of my code?" >> ELSE <<>>)
      \o (IF has("testing")
          THEN << "How can I improve test coverage?",
                  "What parts of the code need more testing?" >> ELSE <<>>)
      \o (IF has("complexity")
          THEN << "Which functions are too complex?",
                  "How can I reduce code complexity?" >> ELSE <<>>)
      \o (IF has("documentation")
          THEN << "What documentation is missing?",
                  "How can I improve code documentation?" >> ELSE <<>>)
      \o (IF rep.metrics.testCoverage < 50
          THEN << "Why is my test coverage so low?" >> ELSE <<>>)
      \o (IF rep.metrics.codeComplexity > 7
          THEN << "Why is my code complexity high?" >> ELSE <<>>)
      \o (IF rep.metrics.duplicationPercentage > 20
          THEN << "Where is the duplicated code?" >> ELSE <<>>)

\* getSuggestedQuestions
getSuggestedQuestions(rep) ==
  LET has(type) == HasType(rep.issues, type)
      suggestions ==
           << "What are the most critical issues I should fix first?",
              "How can I improve the overall code quality?",
              "What files need the most attention?" >>
        \o (IF has("security")
            THEN << "What security vulnerabilities were found?",
                    "How can I make my code more secure?" >> ELSE <<>>)
        \o (IF has("performance")
            THEN << "What performance issues should I address?",
                    "How can I optimize the slow parts of my code?" >> ELSE <<>>)
        \o (IF has("testing")
            THEN << "How can I improve test coverage?",
                    "What parts of the code need more testing?" >> ELSE <<>>)
        \o (IF has("complexity")
            THEN << "Which functions are too complex?",
                    "How can I reduce code complexity?" >> ELSE <<>>)
        \o (IF has("documentation")
            THEN << "What documentation is missing?",
                    "How can I improve code documentation?" >> ELSE <<>>)
        \o (IF rep.metrics.testCoverage < 50
            THEN << "Why is my test coverage so low?" >> ELSE <<>>)
        \o (IF rep.metrics.codeComplexity > 7
            THEN << "Why is my code complexity high?" >> ELSE <<>>)
        \o (IF rep.metrics.duplicationPercentage > 20
            THEN << "Where is the duplicated code?" >> ELSE <<>>)
  IN  SubSeq(suggestions, 1, Min(8, Len(suggestions)))

\* The answer askQuestion returns when the model call failed
\* "I'm sorry, I encountered an error while processing your question. Please
\* try again."
ApologyAnswer ==
  <<"I", "'", "m", " ", "s", "o", "r", "r", "y", ",", " ", "I", " ", "e",
  "n", "c", "o", "u", "n", "t", "e", "r", "e", "d", " ", "a", "n", " ", "e",
  "r", "r", "o", "r", " ", "w", "h", "i", "l", "e", " ", "p", "r", "o", "c",
  "e", "s", "s", "i", "n", "g", " ", "y", "o", "u", "r", " ", "q", "u", "e",
  "s", "t", "i", "o", "n", ".", " ", "P", "l", "e", "a", "s", "e", " ", "t",
  "r", "y", " ", "a", "g", "a", "i", "n", ".">>

\* ------------------------------------------------------------------------
\* Inputs of the Q&A layer
\* ------------------------------------------------------------------------
\* What analyzeFiles returns for the unit set fs when the extractor
\* contributes the issues ai
AnalysisResult(fs, ai) ==
  BuildReport(fs, StaticIssues(fs) \o ai \o analyzeTestCoverage(fs)
                    \o analyzeDocumentation(fs))

SmallProject == <<FileQuery, FileReadme>>

FilesInLargeProject == 7

IssuesInLargeReport == 12

DigitChar(n) == <<"0", "1", "2", "3", "4", "5", "6", "7", "8", "9">>[n + 1]

\* FilesInLargeProject javascript units m1.js, m2.js, .. and one python unit
LargeProject ==
  [n \in 1..FilesInLargeProject |->
     CodeFile(<<"m", DigitChar(n), ".", "j", "s">>, "javascript", << <<>> >>)]
  \o << FileReadme >>

\* A report with more issues than the context shows
LargeReport ==
  AnalysisResult(LargeProject,
    parseAIResponse(<<TokLbr>> \o [n \in 1..IssuesInLargeReport |-> TokObj(ObjFull)]
                      \o <<TokRbr>>,
                    LargeProject, 0))

Analyses ==
  { [report |-> AnalysisResult(SmallProject, <<>>), files |-> SmallProject],
    [report |-> LargeReport, files |-> LargeProject] }

SessionIds == {"github-1", "github-2"}

\* The questions of the requests; the empty one is refused by the route
Questions == {"", "Which issue first?"}

\* The answers of the model: a short one and one longer than 200 characters
AnswerShort == <<"o", "k">>

AnswerLong == [i \in 1..201 |-> "a"]

Answers == {AnswerShort, AnswerLong}

MaxAsks == 2

MaxObjects == 2

\* The questions one caller asks in turn, each after the answer to the last
MaxSeqAsks == 4

\* The arguments of cleanupOldSessions
AgeHours == {0, 24}

\* ------------------------------------------------------------------------
\* WebQAInterface and the /api/qa routes of the web server
\* ------------------------------------------------------------------------
\* The response to a request on the route for the session id of its URL
HttpResponse(route, sid, status, body) ==
  [route |-> route, sid |-> sid, status |-> status, body |-> body]

\* No request has been answered yet
NoResponse == HttpResponse("none", "", 0, [none |-> TRUE])

\* new Map()
EmptyMap == [k \in {} |-> 0]

\* Garbage collection: a QASession object that neither the map nor a call in
\* flight refers to is gone; its slot stays, so object identities are stable
Collected == [report |-> NoReport, files |-> <<>>, history |-> <<>>]

Sweep(objects, map, calls) ==
  [i \in DOMAIN objects |->
     IF i \in {map[k] : k \in DOMAIN map} \cup {p.obj : p \in calls}
     THEN objects[i] ELSE Collected]

\* createSession: new QASession(report, files); this.sessions.set(...).  The
\* constructor of QASession builds a GeminiClient, which needs the API key
CreateSession(sid, analysis) ==
  /\ hasClient
  /\ Len(heap) < MaxObjects
  /\ sessions' = IF sid \in DOMAIN sessions
                 THEN [sessions EXCEPT ![sid] = Len(heap) + 1]
                 ELSE [k \in DOMAIN sessions \cup {sid} |->
                         IF k = sid THEN Len(heap) + 1 ELSE sessions[k]]
  /\ sessionKeys' = IF sid \in DOMAIN sessions THEN sessionKeys
                    ELSE Append(sessionKeys, sid)
  /\ heap' = Sweep(Append(heap, [report |-> analysis.report, files |-> analysis.files,
                                 history |-> <<>>]), sessions', pending)
  /\ UNCHANGED <<pending, response, qaCalls>>
  /\ UNCHANGED <<pipelineVars, fnVars>>

\* POST /api/qa/:sessionId/ask without a question
PostAskNoQuestion(sid) ==
  /\ response' = HttpResponse("ask", sid, 400, [error |-> "Question is required"])
  /\ UNCHANGED <<sessions, sessionKeys, heap, pending, qaCalls>>
  /\ UNCHANGED <<pipelineVars, fnVars>>

\* POST /api/qa/:sessionId/ask for an id that is not in the map:
\* webQA.askQuestion throws Error("Session not found"), caught by the route
PostAskNoSession(sid, question) ==
  /\ question # ""
  /\ sid \notin DOMAIN sessions
  /\ response' = HttpResponse("ask", sid, 500, [error   |-> "Failed to process question",
                                           message |-> "Session not found"])
  /\ UNCHANGED <<sessions, sessionKeys, heap, pending, qaCalls>>
  /\ UNCHANGED <<pipelineVars, fnVars>>

\* POST /api/qa/:sessionId/ask up to the await of the model call in
\* QASession.askQuestion
PostAskCall(sid, question) ==
  /\ question # ""
  /\ sid \in DOMAIN sessions
  /\ LET obj == sessions[sid] IN
       pending' = pending \cup
         { [call     |-> qaCalls + 1,
            sid      |-> sid,
            obj      |-> obj,
            question |-> question,
            prompt   |-> buildContextualPrompt(heap[obj].report, heap[obj].files,
                                               heap[obj].history, question)] }
  /\ qaCalls' = qaCalls + 1
  /\ UNCHANGED <<sessions, sessionKeys, heap, response>>
  /\ UNCHANGED <<pipelineVars, fnVars>>

\* The turn of a call that returns while another call on its session is in
\* flight replaces the stored history
PushTurnOverwrites(p, answer) ==
  IF \E q \in pending \ {p} : q.obj = p.obj
  THEN <<Turn(p.question, answer)>>
  ELSE Append(heap[p.obj].history, Turn(p.question, answer))

\* this.context.conversationHistory.push({ question, answer }): the array of
\* the session as it is when the model call returns, with the turn at its end
PushTurn(p, answer) == Append(heap[p.obj].history, Turn(p.question, answer))

\* The model answers call p and the stored history keeps its last three
\* turns only
AskAnsweredKeepsLastTurns(p, answer) ==
  /\ p \in pending
  /\ pending' = pending \ {p}
  /\ heap' = Sweep([heap EXCEPT ![p.obj].history =
                                  LastTurns(Append(@, Turn(p.question, answer)))],
                    sessions, pending')
  /\ response' = HttpResponse("ask", p.sid, 200,
                   [answer         |-> answer,
                    suggestions    |-> getSuggestedQuestions(heap[p.obj].report),
                    conversationId |-> p.sid])
  /\ UNCHANGED <<sessions, sessionKeys, qaCalls>>
  /\ UNCHANGED <<pipelineVars, fnVars>>

\* The model answers call p: the turn is pushed and the route responds
AskAnswered(p, answer) ==
  /\ p \in pending
  /\ pending' = pending \ {p}
  /\ heap' = Sweep([heap EXCEPT ![p.obj].history = PushTurn(p, answer)],
                    sessions, pending')
  /\ response' = HttpResponse("ask", p.sid, 200,
                   [answer         |-> answer,
                    suggestions    |-> getSuggestedQuestions(heap[p.obj].report),
                    conversationId |-> p.sid])
  /\ UNCHANGED <<sessions, sessionKeys, qaCalls>>
  /\ UNCHANGED <<pipelineVars, fnVars>>

\* The model call of p throws and the apology is stored as the answer of a turn
AskFailedRecorded(p) ==
  /\ p \in pending
  /\ pending' = pending \ {p}
  /\ response' = HttpResponse("ask", p.sid, 200,
                   [answer         |-> ApologyAnswer,
                    suggestions    |-> getSuggestedQuestions(heap[p.obj].report),
                    conversationId |-> p.sid])
  /\ heap' = Sweep([heap EXCEPT ![p.obj].history = Append(@, Turn(p.question, ApologyAnswer))],
                    sessions, pending')
  /\ UNCHANGED <<sessions, sessionKeys, qaCalls>>
  /\ UNCHANGED <<pipelineVars, fnVars>>

\* The model call of p throws: askQuestion returns the apology
AskFailed(p) ==
  /\ p \in pending
  /\ pending' = pending \ {p}
  /\ response' = HttpResponse("ask", p.sid, 200,
                   [answer         |-> ApologyAnswer,
                    suggestions    |-> getSuggestedQuestions(heap[p.obj].report),
                    conversationId |-> p.sid])
  /\ heap' = Sweep(heap, sessions, pending')
  /\ UNCHANGED <<sessions, sessionKeys, qaCalls>>
  /\ UNCHANGED <<pipelineVars, fnVars>>

\* GET /api/qa/:sessionId/suggestions
GetSuggestions(sid) ==
  /\ response' =
       IF sid \in DOMAIN sessions
       THEN HttpResponse("suggestions", sid, 200,
              [suggestions |-> getSuggestedQuestions(heap[sessions[sid]].report)])
       ELSE HttpResponse("suggestions", sid, 404, [error |-> "Session not found"])
  /\ UNCHANGED <<sessions, sessionKeys, heap, pending, qaCalls>>
  /\ UNCHANGED <<pipelineVars, fnVars>>

\* GET /api/qa/:sessionId/history
GetHistory(sid) ==
  /\ response' =
       IF sid \in DOMAIN sessions
       THEN HttpResponse("history", sid, 200, [history |-> heap[sessions[sid]].history])
       ELSE HttpResponse("history", sid, 404, [error |-> "Session not found"])
  /\ UNCHANGED <<sessions, sessionKeys, heap, pending, qaCalls>>
  /\ UNCHANGED <<pipelineVars, fnVars>>

\* WebQAInterface.clearSession: nothing happens for an id that is not in the map
ClearSession(sid) ==
  /\ heap' = IF sid \in DOMAIN sessions
             THEN [heap EXCEPT ![sessions[sid]].history = <<>>]
             ELSE heap
  /\ UNCHANGED <<sessions, sessionKeys, pending, response, qaCalls>>
  /\ UNCHANGED <<pipelineVars, fnVars>>

\* The calls in flight on a deleted session are dropped with it
DeleteSessionCancelsCalls(sid) ==
  /\ sessions' = [k \in DOMAIN sessions \ {sid} |-> sessions[k]]
  /\ sessionKeys' = SelectSeq(sessionKeys, LAMBDA k : k # sid)
  /\ pending' = {p \in pending : p.sid # sid}
  /\ heap' = Sweep(heap, sessions', pending')
  /\ UNCHANGED <<response, qaCalls>>
  /\ UNCHANGED <<pipelineVars, fnVars>>

\* WebQAInterface.deleteSession: Map.delete of an absent key changes nothing
DeleteSession(sid) ==
  /\ sessions' = [k \in DOMAIN sessions \ {sid} |-> sessions[k]]
  /\ sessionKeys' = SelectSeq(sessionKeys, LAMBDA k : k # sid)
  /\ heap' = Sweep(heap, sessions', pending)
  /\ UNCHANGED <<pending, response, qaCalls>>
  /\ UNCHANGED <<pipelineVars, fnVars>>

\* sessions.size > 100 and slice(0, 50) in cleanupOldSessions
cleanupThreshold == 100

cleanupCount == 50

\* WebQAInterface.cleanupOldSessions: cutoffTime is computed and not used; a
\* map of more than 100 sessions loses its first 50 keys in insertion order
cleanupOldSessionsAtThreshold(maxAgeHours) ==
  /\ LET sessionsToDelete ==
           IF Cardinality(DOMAIN sessions) >= cleanupThreshold
           THEN {sessionKeys[i] : i \in 1..Min(cleanupCount, Len(sessionKeys))}
           ELSE {}
     IN /\ sessions' = [k \in DOMAIN sessions \ sessionsToDelete |-> sessions[k]]
        /\ sessionKeys' = SelectSeq(sessionKeys, LAMBDA k : k \notin sessionsToDelete)
  /\ heap' = Sweep(heap, sessions', pending)

cleanupOldSessions(maxAgeHours) ==
  /\ LET sessionsToDelete ==
           IF Cardinality(DOMAIN sessions) > cleanupThreshold
           THEN {sessionKeys[i] : i \in 1..Min(cleanupCount, Len(sessionKeys))}
           ELSE {}
     IN /\ sessions' = [k \in DOMAIN sessions \ sessionsToDelete |-> sessions[k]]
        /\ sessionKeys' = SelectSeq(sessionKeys, LAMBDA k : k \notin sessionsToDelete)
  /\ heap' = Sweep(heap, sessions', pending)

\* A call of cleanupOldSessions next to the requests of the routes
CleanupOldSessions(maxAgeHours) ==
  /\ cleanupOldSessions(maxAgeHours)
  /\ UNCHANGED <<pending, response, qaCalls>>
  /\ UNCHANGED <<pipelineVars, fnVars>>

\* ------------------------------------------------------------------------
\* The functions of the pipeline applied on their own: the initial state holds
\* the arguments, drawn from bounded sets, and one step applies the function
\* ------------------------------------------------------------------------
\* fnResult before the function has been applied
NotApplied == [applied |-> FALSE]

Applied(value) == [applied |-> TRUE, value |-> value]

\* An issue of which only the type matters
IssueOfType(type) ==
  [id |-> <<"sample">>, type |-> type, severity |-> "low", title |-> "Sample",
   description |-> Desc("Sample"), file |-> <<"p", "r", "o", "j", "e", "c", "t">>,
   line |-> NoLine, suggestion |-> "None", impact |-> "None", effort |-> "low"]

Repeat(x, n) == [i \in 1..n |-> x]

MaxMetricFiles == 3

MaxComplexityIssues == 4

MaxTestingIssues == 6

MaxDuplicationIssues == 11

MaxOtherIssues == 10

\* Arguments of calculateMetrics: the number of files and of issues per type
MetricsArgs ==
  [files : 1..MaxMetricFiles, complexity : 0..MaxComplexityIssues,
   testing : 0..MaxTestingIssues, duplication : 0..MaxDuplicationIssues,
   other : {0, MaxOtherIssues}]

MetricsFiles(args) == Repeat(FileReadme, args.files)

MetricsIssues(args) ==
     Repeat(IssueOfType("complexity"), args.complexity)
  \o Repeat(IssueOfType("testing"), args.testing)
  \o Repeat(IssueOfType("duplication"), args.duplication)
  \o Repeat(IssueOfType("security"), args.other)

ApplyCalculateMetrics ==
  /\ fnName = "calculateMetrics"
  /\ fnResult = NotApplied
  /\ fnResult' = Applied(calculateMetrics(MetricsFiles(fnArgs), MetricsIssues(fnArgs)))
  /\ UNCHANGED <<fnName, fnArgs, pipelineVars, qaVars>>

\* The tokens of the responses handed to parseAIResponse on its own
ResponseTokens ==
  {TokLbr, TokRbr, TokProse, TokNull, TokObj(ObjEmpty), TokObj(ObjFull),
   TokObj(ObjFalsy)}

MaxResponseLen == 4

ParseArgs ==
  [response : SeqsUpTo(ResponseTokens, MaxResponseLen),
   files    : {<<FileQuery>>, <<FileTest, FileQuery>>, <<FileNoPath, FileQuery>>},
   now      : 0..MaxClock]

ApplyParseAIResponse ==
  /\ fnName = "parseAIResponse"
  /\ fnResult = NotApplied
  /\ fnResult' = Applied(parseAIResponse(fnArgs.response, fnArgs.files, fnArgs.now))
  /\ UNCHANGED <<fnName, fnArgs, pipelineVars, qaVars>>

\* Paths with and without a test/spec marker
TestPaths ==
  { <<"d", "b", ".", "t", "e", "s", "t", ".", "j", "s">>,
    <<"t", "e", "s", "t", "s", "/", "d", "b", ".", "p", "y">>,
    <<"a", "p", "i", ".", "s", "p", "e", "c", ".", "t", "s">>,
    <<"i", "n", "s", "p", "e", "c", "t", "o", "r", ".", "j", "s">> }

SourcePaths ==
  { <<"d", "b", ".", "j", "s">>,
    <<"s", "r", "c", "/", "T", "e", "s", "t", "s", ".", "j", "a", "v", "a">> }

MaxTestFiles == 3

MaxSourceFiles == 11

\* Arguments of analyzeTestCoverage: how many files with the one and with the
\* other path the unit set holds
CoverageArgs ==
  [testPath : TestPaths, testFiles : 0..MaxTestFiles,
   sourcePath : SourcePaths, sourceFiles : 0..MaxSourceFiles]

CoverageFiles(args) ==
     Repeat(CodeFile(args.sourcePath, "javascript", << <<>> >>), args.sourceFiles)
  \o Repeat(CodeFile(args.testPath, "javascript", << <<>> >>), args.testFiles)

ApplyAnalyzeTestCoverage ==
  /\ fnName = "analyzeTestCoverage"
  /\ fnResult = NotApplied
  /\ fnResult' = Applied(analyzeTestCoverage(CoverageFiles(fnArgs)))
  /\ UNCHANGED <<fnName, fnArgs, pipelineVars, qaVars>>

\* The lines of the contents handed to findDuplicateBlocks: a line of 24
\* characters and the empty line
LineLong ==
  <<"c", "o", "n", "s", "t", " ", "t", "o", "t", "a", "l", " ", "=", " ", "a", " ", "+", " ", "b", " ", "+", " ", "c", ";">>

MaxLines == 11

DuplicateArgs == SeqsUpTo({LineLong, <<>>}, MaxLines)

ApplyFindDuplicateBlocks ==
  /\ fnName = "findDuplicateBlocks"
  /\ fnResult = NotApplied
  /\ fnResult' = Applied(findDuplicateBlocks(fnArgs))
  /\ UNCHANGED <<fnName, fnArgs, pipelineVars, qaVars>>

\* The turns of a conversation history
Turns == {Turn(q, a) : q \in Questions \ {""}, a \in Answers}

MaxTurns == 5

\* Arguments of buildContextualPrompt: the analysis of the session and its
\* conversation history
PromptArgs == [analysis : Analyses, history : SeqsUpTo(Turns, MaxTurns)]

ApplyBuildContextualPrompt ==
  /\ fnName = "buildContextualPrompt"
  /\ fnResult = NotApplied
  /\ fnResult' = Applied(buildContextualPrompt(fnArgs.analysis.report,
                                               fnArgs.analysis.files,
                                               fnArgs.history, "Which issue first?"))
  /\ UNCHANGED <<fnName, fnArgs, pipelineVars, qaVars>>

\* ------------------------------------------------------------------------
\* Specifications
\* ------------------------------------------------------------------------
PipelineIdle ==
  /\ clock = 0
  /\ pc = "idle"
  /\ files = <<>>
  /\ allIssues = <<>>
  /\ aiIssues = <<>>
  /\ batchStart = 0
  /\ batchResponse = NoOutcome
  /\ report = NoReport
  /\ error = NoError
  /\ modelCalls = 0
  /\ detectorRuns = 0

QAIdle ==
  /\ sessions = EmptyMap
  /\ sessionKeys = <<>>
  /\ heap = <<>>
  /\ pending = {}
  /\ response = NoResponse
  /\ qaCalls = 0

FnIdle ==
  /\ fnName = "none"
  /\ fnArgs = <<>>
  /\ fnResult = NotApplied

\* The state after the constructors have run: the API key is configured or not
Init ==
  /\ \E apiKey \in ApiKeys : hasClient = NewAIQualityAnalyzer(apiKey)
  /\ PipelineIdle
  /\ QAIdle
  /\ FnIdle

\* analyzeFiles
Next ==
  \/ AnalyzeFilesEmpty
  \/ \E fs \in FileSets : AnalyzeFilesStart(fs)
  \/ AnalyzeBatchSkip
  \/ AnalyzeBatchCall
  \/ ModelCallFails
  \/ \E r \in Responses, now \in 0..MaxClock : ModelCallReturns(r, now)
  \/ CollectAIIssues
  \/ CollectTestIssues
  \/ ReturnReport
  \/ NextAnalysis

Spec == Init /\ [][Next]_vars

\* The Q&A sessions behind the web routes
NextQA ==
  \/ \E sid \in SessionIds, a \in Analyses : CreateSession(sid, a)
  \/ \E sid \in SessionIds : PostAskNoQuestion(sid)
  \/ \E sid \in SessionIds, q \in Questions : PostAskNoSession(sid, q)
  \/ \E sid \in SessionIds, q \in Questions : qaCalls < MaxAsks /\ PostAskCall(sid, q)
  \/ \E p \in pending, a \in Answers : AskAnswered(p, a)
  \/ \E p \in pending : AskFailed(p)
  \/ \E sid \in SessionIds : GetSuggestions(sid)
  \/ \E sid \in SessionIds : GetHistory(sid)
  \/ \E sid \in SessionIds : ClearSession(sid)
  \/ \E sid \in SessionIds : DeleteSession(sid)
  \/ \E maxAgeHours \in AgeHours : CleanupOldSessions(maxAgeHours)

SpecQA == Init /\ [][NextQA]_vars

\* The same interface used by one caller, who has one session at a time and
\* waits for the answer to a question before sending the next one
NextQASeq ==
  \/ \E sid \in SessionIds, a \in Analyses :
        DOMAIN sessions = {} /\ CreateSession(sid, a)
  \/ \E sid \in SessionIds : PostAskNoQuestion(sid)
  \/ \E sid \in SessionIds, q \in Questions : PostAskNoSession(sid, q)
  \/ \E sid \in SessionIds, q \in Questions :
        qaCalls < MaxSeqAsks /\ pending = {} /\ PostAskCall(sid, q)
  \/ \E p \in pending, a \in Answers : AskAnswered(p, a)
  \/ \E p \in pending : AskFailed(p)
  \/ \E sid \in SessionIds : GetSuggestions(sid)
  \/ \E sid \in SessionIds : GetHistory(sid)
  \/ \E sid \in SessionIds : ClearSession(sid)
  \/ \E sid \in SessionIds : DeleteSession(sid)
  \/ \E maxAgeHours \in AgeHours : CleanupOldSessions(maxAgeHours)

SpecQASeq == Init /\ [][NextQASeq]_vars

\* The questions of callers who do not wait for each other
MaxParAsks == 3

\* Callers who ask without waiting for the answers to the questions in
\* flight, of their own session or of another one, on sessions that are each
\* created once and stay
NextQAPar ==
  \/ \E sid \in SessionIds, a \in Analyses :
        sid \notin DOMAIN sessions /\ CreateSession(sid, a)
  \/ \E sid \in SessionIds, q \in Questions :
        qaCalls < MaxParAsks /\ PostAskCall(sid, q)
  \/ \E p \in pending, a \in Answers : AskAnswered(p, a)
  \/ \E p \in pending : AskFailed(p)
  \/ \E sid \in SessionIds : GetHistory(sid)

SpecQAPar == Init /\ [][NextQAPar]_vars

\* The questions asked on sessions that are cleared and deleted meanwhile
MaxResetAsks == 2

\* Callers who clear and delete sessions of the small project while questions
\* are in flight
NextQAReset ==
  \/ \E sid \in SessionIds, a \in {x \in Analyses : x.files = SmallProject} :
        sid \notin DOMAIN sessions /\ CreateSession(sid, a)
  \/ \E sid \in SessionIds, q \in Questions :
        qaCalls < MaxResetAsks /\ PostAskCall(sid, q)
  \/ \E p \in pending, a \in Answers : AskAnswered(p, a)
  \/ \E p \in pending : AskFailed(p)
  \/ \E sid \in SessionIds : GetHistory(sid)
  \/ \E sid \in SessionIds : ClearSession(sid)
  \/ \E sid \in SessionIds : DeleteSession(sid)

SpecQAReset == Init /\ [][NextQAReset]_vars

\* The longest content of a file handed to createAnalysisPrompt
MaxContentLen == 2001

\* A line of n characters in which no two neighbours are equal
PatternLine(n) == [i \in 1..n |-> IF i % 3 = 0 THEN "a" ELSE IF i % 3 = 1 THEN "b" ELSE "c"]

\* The lines of a file whose text has n characters: lines of 499 characters,
\* each followed by a newline, and a last line with the rest
PatternLines(n) ==
  [k \in 1..(n \div 500 + 1) |->
     IF k <= n \div 500 THEN PatternLine(499) ELSE PatternLine(n % 500)]

\* Arguments of createAnalysisPrompt: a batch of one or two files, the first
\* with a content of the given length
AnalysisPromptArgs == [length : 0..MaxContentLen, batch : 1..2]

AnalysisPromptFiles(args) ==
  LET first == CodeFile(FileQuery.path, "javascript", PatternLines(args.length))
  IN  IF args.batch = 1 THEN <<first>> ELSE <<FileTest, first>>

ApplyCreateAnalysisPrompt ==
  /\ fnName = "createAnalysisPrompt"
  /\ fnResult = NotApplied
  /\ fnResult' = Applied(createAnalysisPrompt(AnalysisPromptFiles(fnArgs)))
  /\ UNCHANGED <<fnName, fnArgs, pipelineVars, qaVars>>

\* The most issues of one type handed to generateRecommendations
MaxTypeIssues == 2

\* Arguments of generateRecommendations: the number of issues per type
RecommendArgs ==
  [security : 0..MaxTypeIssues, performance : 0..MaxTypeIssues,
   testing : 0..MaxTypeIssues, complexity : 0..MaxTypeIssues,
   documentation : 0..MaxTypeIssues, duplication : 0..1]

RecommendIssues(args) ==
     Repeat(IssueOfType("duplication"), args.duplication)
  \o Repeat(IssueOfType("documentation"), args.documentation)
  \o Repeat(IssueOfType("testing"), args.testing)
  \o Repeat(IssueOfType("security"), args.security)
  \o Repeat(IssueOfType("complexity"), args.complexity)
  \o Repeat(IssueOfType("performance"), args.performance)

ApplyGenerateRecommendations ==
  /\ fnName = "generateRecommendations"
  /\ fnResult = NotApplied
  /\ fnResult' = Applied(generateRecommendations(RecommendIssues(fnArgs)))
  /\ UNCHANGED <<fnName, fnArgs, pipelineVars, qaVars>>

\* Lines handed to the detectors: two rules of the cross-site scripting table
\* on one line, a random number with and without a word of the security
\* context, a loop, an array literal and an object literal of 200 characters
\* each on one line
LineXssTwice ==
  <<"e", "v", "a", "l", "(", "d", "o", "c", "u", "m", "e", "n", "t", ".", "w", "r", "i", "t", "e", "(", "x", ")", ")">>

LineRandomToken ==
  <<"t", "o", "k", "e", "n", " ", "=", " ", "M", "a", "t", "h", ".", "r", "a", "n", "d", "o", "m">>

LineRandomPlain ==
  <<"x", " ", "=", " ", "M", "a", "t", "h", ".", "r", "a", "n", "d", "o", "m">>

LineLoop ==
  <<"f", "o", "r", " ", "(", "a", " ", "o", "f", " ", "b", ")", " ", "{">>

LineLargeBoth ==
  <<"[">> \o [i \in 1..200 |-> "1"] \o <<"]", "{">> \o [i \in 1..200 |-> "2"] \o <<"}">>

DetectorLines ==
  {FileQuery.content[1], LineXssTwice, LineRandomToken, LineRandomPlain, LineLoop, LineLargeBoth}

MaxDetectorLines == 2

\* Arguments of the analyzeFile of the two detectors: the lines of the file
DetectorArgs == SeqsUpTo(DetectorLines, MaxDetectorLines) \ {<<>>}

\* SecurityAnalyzer.analyzeFile and PerformanceAnalyzer.analyzeFile on one
\* file, as the static analysis loop calls them
ApplyAnalyzeFile ==
  /\ fnName = "analyzeFile"
  /\ fnResult = NotApplied
  /\ LET file == CodeFile(FileQuery.path, "javascript", fnArgs)
     IN  fnResult' = Applied(SecurityAnalyzeFile(file) \o PerformanceAnalyzeFile(file))
  /\ UNCHANGED <<fnName, fnArgs, pipelineVars, qaVars>>

\* Lines of a unit for the function trackers of the ComplexityAnalyzer
LineDeclareA ==
  <<"f", "u", "n", "c", "t", "i", "o", "n", " ", "a", "(", ")", " ", "{">>

LineDeclareB ==
  <<"f", "u", "n", "c", "t", "i", "o", "n", " ", "b", "(", ")", " ", "{">>

LineClose == <<"}">>

\* ten complexity-increasing constructs on one line
LineBranches ==
  LET word == <<"i", "f", " ">> IN [i \in 1..30 |-> word[((i - 1) % 3) + 1]]

TrackerLines == {LineDeclareA, LineDeclareB, LineClose, LineBranches}

MaxTrackerLines == 5

TrackerArgs == SeqsUpTo(TrackerLines, MaxTrackerLines) \ {<<>>}

\* ComplexityAnalyzer.analyzeFile on a unit with the drawn lines
ApplyComplexityAnalyzeFile ==
  /\ fnName = "complexityAnalyzeFile"
  /\ fnResult = NotApplied
  /\ LET file == CodeFile(FileQuery.path, "javascript", fnArgs)
     IN  fnResult' = Applied(ComplexityAnalyzeFile(file))
  /\ UNCHANGED <<fnName, fnArgs, pipelineVars, qaVars>>

MaxSuggestFiles == 2

MaxSuggestTesting == 3

MaxSuggestComplexity == 2

MaxSuggestDuplication == 5

\* Arguments of getSuggestedQuestions: the number of files and of issues per
\* type of the report the session was created with
SuggestArgs ==
  [files : 1..MaxSuggestFiles, security : 0..1, performance : 0..1,
   documentation : 0..1, testing : 0..MaxSuggestTesting,
   complexity : 0..MaxSuggestComplexity, duplication : {0, MaxSuggestDuplication}]

SuggestReport(args) ==
  BuildReport(Repeat(FileReadme, args.files),
                 Repeat(IssueOfType("documentation"), args.documentation)
              \o Repeat(IssueOfType("duplication"), args.duplication)
              \o Repeat(IssueOfType("complexity"), args.complexity)
              \o Repeat(IssueOfType("testing"), args.testing)
              \o Repeat(IssueOfType("performance"), args.performance)
              \o Repeat(IssueOfType("security"), args.security))

ApplyGetSuggestedQuestions ==
  /\ fnName = "getSuggestedQuestions"
  /\ fnResult = NotApplied
  /\ fnResult' = Applied(getSuggestedQuestions(SuggestReport(fnArgs)))
  /\ UNCHANGED <<fnName, fnArgs, pipelineVars, qaVars>>

\* The functions on their own
InitFn ==
  /\ hasClient = TRUE
  /\ PipelineIdle
  /\ QAIdle
  /\ \/ fnName = "calculateMetrics" /\ fnArgs \in MetricsArgs
     \/ fnName = "parseAIResponse" /\ fnArgs \in ParseArgs
     \/ fnName = "analyzeTestCoverage" /\ fnArgs \in CoverageArgs
     \/ fnName = "buildContextualPrompt" /\ fnArgs \in PromptArgs
     \/ fnName = "findDuplicateBlocks" /\ fnArgs \in DuplicateArgs
     \/ fnName = "getSuggestedQuestions" /\ fnArgs \in SuggestArgs
     \/ fnName = "createAnalysisPrompt" /\ fnArgs \in AnalysisPromptArgs
     \/ fnName = "generateRecommendations" /\ fnArgs \in RecommendArgs
     \/ fnName = "analyzeFile" /\ fnArgs \in DetectorArgs
     \/ fnName = "complexityAnalyzeFile" /\ fnArgs \in TrackerArgs
  /\ fnResult = NotApplied

NextFn ==
  \/ ApplyCalculateMetrics
  \/ ApplyParseAIResponse
  \/ ApplyAnalyzeTestCoverage
  \/ ApplyBuildContextualPrompt
  \/ ApplyFindDuplicateBlocks
  \/ ApplyGetSuggestedQuestions
  \/ ApplyCreateAnalysisPrompt
  \/ ApplyGenerateRecommendations
  \/ ApplyAnalyzeFile
  \/ ApplyComplexityAnalyzeFile

SpecFn == InitFn /\ [][NextFn]_vars

\* ------------------------------------------------------------------------
\* cleanupOldSessions on a server that holds about a hundred sessions
\* ------------------------------------------------------------------------
\* The most sessions of the map
MaxSessions == 102

\* The numbers of sessions around the threshold of the sweep
SessionCounts == (cleanupThreshold - 2)..MaxSessions

\* The id of the i-th session
SweepSessionId(i) == <<"session", i>>

\* The map after count calls of createSession, the ids in ascending or in
\* descending order, and an answered question in every stride-th session
InitSweep ==
  /\ hasClient = TRUE
  /\ PipelineIdle
  /\ \E count \in SessionCounts, ascending \in BOOLEAN, stride \in 1..3, a \in Analyses :
        /\ sessionKeys = [i \in 1..count |->
                            SweepSessionId(IF ascending THEN i ELSE count + 1 - i)]
        /\ sessions = [k \in {SweepSessionId(i) : i \in 1..count} |->
                          IF ascending THEN k[2] ELSE count + 1 - k[2]]
        /\ heap = [i \in 1..count |->
                     [report  |-> a.report,
                      files   |-> a.files,
                      history |-> IF i % stride = 0
                                  THEN <<Turn("Which issue first?", AnswerShort)>>
                                  ELSE <<>>]]
  /\ pending = {}
  /\ response = NoResponse
  /\ qaCalls = 0
  /\ fnName = "cleanupOldSessions"
  /\ fnArgs \in AgeHours
  /\ fnResult = NotApplied

\* One call of cleanupOldSessions(maxAgeHours); it returns undefined
ApplyCleanupOldSessions ==
  /\ fnName = "cleanupOldSessions"
  /\ fnResult = NotApplied
  /\ cleanupOldSessions(fnArgs)
  /\ fnResult' = Applied(<<>>)
  /\ UNCHANGED <<fnName, fnArgs, pending, response, qaCalls>>
  /\ UNCHANGED pipelineVars

NextSweep == ApplyCleanupOldSessions

SpecSweep == InitSweep /\ [][NextSweep]_vars

\* ------------------------------------------------------------------------
\* Properties of the report returned by analyzeFiles
\* ------------------------------------------------------------------------
\* The sum of the values of a severity breakdown: a JavaScript number, which
\* is NaN as soon as one value is (the values under other keys than the four
\* initial ones are)
BreakdownSum(breakdown) ==
  [nan |-> DOMAIN breakdown # Severities,
   v   |-> breakdown["low"] + breakdown["medium"] + breakdown["high"]
             + breakdown["critical"]]

\* C1: in every report analyzeFiles returns, the counts of
\* summary.severityBreakdown add up to summary.issueCount, which is the length
\* of issues, whatever severity strings the model returned.
C1_BreakdownSumsToIssueCount ==
  pc = "done" =>
    LET total == BreakdownSum(report.summary.severityBreakdown) IN
    /\ ~total.nan
    /\ total.v = report.summary.issueCount
    /\ report.summary.issueCount = Len(report.issues)

\* The ranks the ordering is stated with
SeverityRanked(issue) == issue.severity \in {"critical", "high", "medium", "low"}

SeverityRank(issue) ==
  CASE issue.severity = "critical" -> 4
    [] issue.severity = "high"     -> 3
    [] issue.severity = "medium"   -> 2
    [] issue.severity = "low"      -> 1

TypeRank(issue) ==
  CASE issue.type = "security"    -> 4
    [] issue.type = "performance" -> 3
    [] issue.type = "complexity"  -> 2
    [] issue.type = "testing"     -> 1
    [] OTHER                      -> 0

\* a stands before b although it ranks below it; two issues of one severity
\* string have equal severity rank
OutOfOrder(a, b) ==
  \/ SeverityRanked(a) /\ SeverityRanked(b) /\ SeverityRank(a) < SeverityRank(b)
  \/ a.severity = b.severity /\ TypeRank(a) < TypeRank(b)

\* C2: in every report analyzeFiles returns, no issue is directly followed by
\* one of higher severity rank, nor by one of equal severity rank and higher
\* type rank.
C2_IssuesSorted ==
  pc = "done" =>
    \A i \in 1..(Len(report.issues) - 1) :
      ~OutOfOrder(report.issues[i], report.issues[i + 1])

\* ------------------------------------------------------------------------
\* Properties of calculateMetrics
\* ------------------------------------------------------------------------
\* r is Math.round(n / d) for d > 0: the integer nearest to n / d, the upper
\* one of two equally near
IsRounded(r, n, d) == 2 * d * r <= 2 * n + d /\ 2 * n + d < 2 * d * (r + 1)

\* C3: for a non-empty unit set and any number of issues of any type, the
\* metrics are within their clamps and follow their formulas:
\* codeComplexity = min(10, round(10 c / f)), testCoverage = max(0, 100 - 20 t),
\* duplicationPercentage = min(50, 5 d),
\* maintainabilityIndex = max(0, round(100 - 10 n / f)).
C3_MetricsWithinClamps ==
  (fnName = "calculateMetrics" /\ fnResult.applied) =>
    LET m == fnResult.value
        f == fnArgs.files
        c == fnArgs.complexity
        t == fnArgs.testing
        d == fnArgs.duplication
        n == c + t + d + fnArgs.other
    IN  /\ m.codeComplexity \in 0..10
        /\ m.testCoverage \in 0..100
        /\ m.duplicationPercentage \in 0..50
        /\ m.maintainabilityIndex \in 0..100
        /\ \E r \in 0..(10 * c + 1) :
             IsRounded(r, 10 * c, f) /\ m.codeComplexity = Min(10, r)
        /\ m.testCoverage = Max(0, 100 - 20 * t)
        /\ m.duplicationPercentage = Min(50, 5 * d)
        /\ \E r \in (99 - 10 * n)..100 :
             IsRounded(r, 100 * f - 10 * n, f) /\ m.maintainabilityIndex = Max(0, r)

\* Metrics computed for more issues than every clamp allows for
C3_Witness ==
  /\ fnName = "calculateMetrics"
  /\ fnResult.applied
  /\ fnArgs.duplication > 10
  /\ fnArgs.testing > 5
  /\ fnArgs.complexity > fnArgs.files
  /\ fnResult.value = [codeComplexity |-> 10, testCoverage |-> 0,
                       duplicationPercentage |-> 50, maintainabilityIndex |-> 0]

\* ------------------------------------------------------------------------
\* Properties of the analyzeFiles pipeline
\* ------------------------------------------------------------------------
\* C4: analyzeFiles called with zero units fails with the input error and
\* returns no report, before any detector has run and before any model call
\* was issued; no later stage of the pipeline ever works on zero units.
C4_EmptyInputFails ==
  /\ pc = "failed" =>
       /\ files = <<>>
       /\ error = "No supported code files provided"
       /\ report = NoReport
       /\ detectorRuns = 0
       /\ modelCalls = 0
  /\ pc \notin {"idle", "failed"} => Len(files) > 0
  /\ report # NoReport => report.summary.totalFiles > 0

\* The call with zero units has failed
C4_Witness ==
  /\ pc = "failed"
  /\ files = <<>>
  /\ error = "No supported code files provided"
  /\ report = NoReport

\* The text holds an array of issue objects: one "[", later one "]", nothing
\* but objects between them and nothing but prose around them
IsIssueArray(text) ==
  \E i, j \in 1..Len(text) :
    /\ i < j
    /\ text[i] = TokLbr
    /\ text[j] = TokRbr
    /\ \A k \in 1..Len(text) :
         IF k < i \/ k > j THEN text[k] = TokProse
         ELSE (i < k /\ k < j) => text[k].t = "obj"

\* The model call failed, or its text holds no bracketed array, or the
\* bracketed part does not parse or does not map into issues
FailedOutcome(outcome) ==
  \/ outcome.kind = "thrown"
  \/ outcome.kind = "text" /\ ~IsIssueArray(outcome.text)

IsPrefix(s, t) == Len(s) <= Len(t) /\ SubSeq(t, 1, Len(s)) = s

\* The number of batches of n files
BatchCount(n) == (n + batchSize - 1) \div batchSize

\* C5: however the model call of a batch ends, analyzeCodeQuality goes on
\* with the next batch and no error is raised; the issues of the earlier
\* batches are kept, and a failed batch adds none; in the end one call was
\* issued per batch.
C5_FailedBatchIsEmpty ==
  /\ [][pc = "awaiting" =>
          /\ pc' = "batch"
          /\ error' = NoError
          /\ batchStart' = batchStart + batchSize
          /\ IsPrefix(aiIssues, aiIssues')
          /\ FailedOutcome(batchResponse') => aiIssues' = aiIssues]_vars
  /\ [](pc \in {"tests", "docs", "done"} =>
          /\ error = NoError
          /\ modelCalls = (IF hasClient THEN BatchCount(Len(files)) ELSE 0))

\* The second batch has failed and the issues of the first one are there
C5_Witness ==
  /\ pc = "batch"
  /\ batchStart = 2 * batchSize
  /\ FailedOutcome(batchResponse)
  /\ aiIssues # <<>>

\* ------------------------------------------------------------------------
\* Properties of parseAIResponse
\* ------------------------------------------------------------------------
\* The issue objects of a text that holds an array of them, in their order
IssueObjects(text) ==
  LET i == CHOOSE k \in 1..Len(text) : text[k] = TokLbr
      j == CHOOSE k \in 1..Len(text) : text[k] = TokRbr
  IN  [k \in 1..(j - i - 1) |-> text[i + k].v]

\* The field of the object when the object has it, the default otherwise
PresentOr(o, field, default) == IF field \in DOMAIN o THEN o[field] ELSE default

\* The field of the object when the object has it with another value than the
\* falsy one of its kind, the default otherwise
TruthyOr(o, field, falsy, default) ==
  IF field \in DOMAIN o /\ o[field] # falsy THEN o[field] ELSE default

\* The path of the first file of the batch, "unknown" when it is empty
DefaultFile(batch) ==
  IF batch[1].path = <<>> THEN <<"u", "n", "k", "n", "o", "w", "n">> ELSE batch[1].path

\* C6 as stated: for a response holding a valid array, every issue object
\* yields one issue in response order; a missing field takes its default and
\* a field that is present is copied unchanged.
C6_PresentFieldsCopied ==
  (fnName = "parseAIResponse" /\ fnResult.applied /\ IsIssueArray(fnArgs.response)) =>
    LET objects == IssueObjects(fnArgs.response)
        issues  == fnResult.value
    IN  /\ Len(issues) = Len(objects)
        /\ \A k \in 1..Len(objects) :
             LET o == objects[k] IN
             /\ issues[k].type = PresentOr(o, "type", "maintainability")
             /\ issues[k].severity = PresentOr(o, "severity", "medium")
             /\ issues[k].file = PresentOr(o, "file", DefaultFile(fnArgs.files))
             /\ issues[k].effort = PresentOr(o, "effort", "medium")
             /\ issues[k].suggestion = PresentOr(o, "suggestion", "Review and improve this code")
             /\ issues[k].impact = PresentOr(o, "impact", "May affect code quality")
             /\ "title" \in DOMAIN o => issues[k].title = o.title
             /\ "description" \in DOMAIN o => issues[k].description = Desc(o.description)
             /\ "line" \in DOMAIN o => issues[k].line = o.line

\* C6 as amended: for a response holding a valid array, every issue object
\* yields one issue in response order; a field that is missing, or present
\* with an empty or zero value, takes its default, and every other field is
\* copied unchanged.
C6_TruthyFieldsCopied ==
  (fnName = "parseAIResponse" /\ fnResult.applied /\ IsIssueArray(fnArgs.response)) =>
    LET objects == IssueObjects(fnArgs.response)
        issues  == fnResult.value
    IN  /\ Len(issues) = Len(objects)
        /\ \A k \in 1..Len(objects) :
             LET o == objects[k] IN
             /\ issues[k].type = TruthyOr(o, "type", "", "maintainability")
             /\ issues[k].severity = TruthyOr(o, "severity", "", "medium")
             /\ issues[k].file = TruthyOr(o, "file", <<>>, DefaultFile(fnArgs.files))
             /\ issues[k].effort = TruthyOr(o, "effort", "", "medium")
             /\ issues[k].suggestion =
                  TruthyOr(o, "suggestion", "", "Review and improve this code")
             /\ issues[k].impact = TruthyOr(o, "impact", "", "May affect code quality")
             /\ issues[k].title = TruthyOr(o, "title", "", "Code Quality Issue")
             /\ issues[k].description =
                  Desc(TruthyOr(o, "description", "", "Issue detected by AI analysis"))
             /\ issues[k].line = TruthyOr(o, "line", 0, NoLine)

\* An array of an object with empty fields and one with every field has
\* been turned into two issues
C6_Witness ==
  /\ fnName = "parseAIResponse"
  /\ fnResult.applied
  /\ fnArgs.response = <<TokLbr, TokObj(ObjFalsy), TokObj(ObjFull), TokRbr>>
  /\ fnArgs.files[1] = FileTest
  /\ Len(fnResult.value) = 2
  /\ fnResult.value[1].title = "Code Quality Issue"
  /\ fnResult.value[1].file = FileTest.path
  /\ fnResult.value[2].title = "Slow loop"

\* ------------------------------------------------------------------------
\* Properties of QASession.buildContextualPrompt
\* ------------------------------------------------------------------------
\* The positions of the lines of a context that were made from the template
LinesOf(context, template) == {p \in 1..Len(context) : context[p][1] = template}

LanguageHeader == "${language}: ${count} files"

\* The lines made from the template that stand below the language header at
\* position p, before the next language header
LinesUnderLanguage(context, template, p) ==
  {q \in LinesOf(context, template) :
     q > p /\ \A h \in LinesOf(context, LanguageHeader) : ~(p < h /\ h < q)}

\* The last three elements of a sequence (all of them when there are fewer)
LastThree(s) == IF Len(s) <= 3 THEN s ELSE <<s[Len(s) - 2], s[Len(s) - 1], s[Len(s)]>>

\* C7: the context lists no more than the first 10 issues of the report, no
\* more than 5 paths and one marker of further files per language, and no
\* more than the last 3 turns with answers of at most 200 characters; it is
\* the context that the last 3 turns alone would give.
C7_ContextBounded ==
  (fnName = "buildContextualPrompt" /\ fnResult.applied) =>
    LET context == fnResult.value
        rep     == fnArgs.analysis.report
        heads   == LinesOf(context, "${index + 1}. [${severity.toUpperCase()}] ${title}")
        answers == LinesOf(context, "A: ${answer}")
    IN  /\ Cardinality(heads) <= 10
        /\ Cardinality(heads) <= Len(rep.issues)
        /\ \A p \in heads :
             /\ context[p][2] \in 1..10
             /\ context[p][3] = rep.issues[context[p][2]].severity
             /\ context[p][4] = rep.issues[context[p][2]].title
        /\ \A p \in LinesOf(context, LanguageHeader) :
             /\ Cardinality(LinesUnderLanguage(context, "  - ${path}", p)) <= 5
             /\ Cardinality(LinesUnderLanguage(context, "  ... and ${count} more", p)) <= 1
        /\ Cardinality(LinesOf(context, "Q: ${question}")) <= 3
        /\ Cardinality(answers) <= 3
        /\ \A p \in answers : Len(context[p][2]) <= 200
        /\ context = buildContextualPrompt(rep, fnArgs.analysis.files,
                                           LastThree(fnArgs.history), "Which issue first?")

\* A context built after more than 3 turns, one of the last with a long
\* answer, for a report of more than 10 issues on more than 5 files of a
\* language
C7_Witness ==
  /\ fnName = "buildContextualPrompt"
  /\ fnResult.applied
  /\ Len(fnArgs.history) > 3
  /\ fnArgs.history[1] # fnArgs.history[Len(fnArgs.history)]
  /\ fnArgs.history[Len(fnArgs.history)].answer = AnswerLong
  /\ Len(fnArgs.analysis.report.issues) > 10
  /\ Len(fnArgs.analysis.files) > 6
  /\ Cardinality(LinesOf(fnResult.value, "Q: ${question}")) = 3
  /\ Cardinality(LinesOf(fnResult.value, "  ... and ${count} more")) = 1

\* ------------------------------------------------------------------------
\* Properties of the /api/qa routes
\* ------------------------------------------------------------------------
\* This step answers a request that named session id sid and made the route
\* call askQuestion, getSuggestions or getHistory; no earlier call ends in it
AnswersRequestFor(sid) ==
  /\ response' # response
  /\ pending' = pending
  /\ response'.sid = sid
  /\ response'.route \in {"ask", "suggestions", "history"}
  /\ response'.status # 400

\* C8: a question, a request for suggestions and a request for the history
\* that name a session id which is not in the map are each answered as not
\* found; the map stays as it is and no model call is made.
C8_UnknownSessionNotFound ==
  [][\A sid \in SessionIds :
       (sid \notin DOMAIN sessions /\ AnswersRequestFor(sid)) =>
         /\ response'.status = 404
         /\ sessions' = sessions
         /\ sessionKeys' = sessionKeys
         /\ qaCalls' = qaCalls]_vars

\* ------------------------------------------------------------------------
\* Properties of the detectors and heuristics
\* ------------------------------------------------------------------------
\* C9: the report on the single JavaScript unit with the line
\* query("SELECT * FROM users WHERE id=" + id) has a security issue of
\* severity critical with the SQL injection title, the path of the unit and
\* the number of that line.
C9_QueryConcatenationReported ==
  (pc = "done" /\ files = <<FileQuery>>) =>
    \E i \in 1..Len(report.issues) :
      /\ report.issues[i].type = "security"
      /\ report.issues[i].severity = "critical"
      /\ report.issues[i].title = "Potential SQL Injection"
      /\ report.issues[i].file = FileQuery.path
      /\ report.issues[i].line = 1

\* C10: with no test file the heuristic gives the one "no tests" issue
\* (testing, high) and nothing else; with test files it gives no such issue,
\* and the one "low coverage" issue (testing, medium) exactly when test files
\* divided by other files is below 0.3; every issue is on file "project".
C10_TestCoverageHeuristic ==
  (fnName = "analyzeTestCoverage" /\ fnResult.applied) =>
    LET issues == fnResult.value
        t      == fnArgs.testFiles
        s      == fnArgs.sourceFiles
        kind(type, severity, title) ==
          {i \in 1..Len(issues) : /\ issues[i].type = type
                                  /\ issues[i].severity = severity
                                  /\ issues[i].title = title}
        noTests     == kind("testing", "high", "No Test Files Found")
        lowCoverage == kind("testing", "medium", "Low Test Coverage")
    IN  /\ \A i \in 1..Len(issues) : issues[i].file = <<"p", "r", "o", "j", "e", "c", "t">>
        /\ Len(issues) = Cardinality(noTests) + Cardinality(lowCoverage)
        /\ Len(issues) <= 1
        /\ t = 0 => Cardinality(noTests) = 1
        /\ t > 0 => /\ noTests = {}
                    /\ Cardinality(lowCoverage) = 1 <=> (s > 0 /\ 10 * t < 3 * s)

\* Three test files beside eleven others: the low coverage issue
C10_Witness ==
  /\ fnName = "analyzeTestCoverage"
  /\ fnResult.applied
  /\ fnArgs.testFiles = 3
  /\ fnArgs.sourceFiles = 11
  /\ Len(fnResult.value) = 1
  /\ fnResult.value[1].title = "Low Test Coverage"

\* ------------------------------------------------------------------------
\* Properties of CodeParser.findDuplicateBlocks
\* ------------------------------------------------------------------------
\* The 0-based starts of the full windows of 5 lines
WindowStarts(lines) == {i \in 0..Len(lines) : i + 5 <= Len(lines)}

\* The trimmed joined text of the window that starts at i
WindowText(lines, i) == Trim(Join(SubSeq(lines, i + 1, i + 5)))

\* The pairs of window starts that make a duplicate pairing
QualifyingPairs(lines) ==
  {pair \in WindowStarts(lines) \X WindowStarts(lines) :
     /\ pair[2] > pair[1] + 5
     /\ Len(WindowText(lines, pair[1])) >= 50
     /\ WindowText(lines, pair[1]) = WindowText(lines, pair[2])}

\* C11: the scanner records exactly one pairing for every pair (i, j) of
\* starts of full 5-line windows with j > i + 5 whose trimmed joined texts
\* are equal and at least 50 characters long, and no other pairing.
C11_DuplicatePairings ==
  (fnName = "findDuplicateBlocks" /\ fnResult.applied) =>
    LET found == fnResult.value
        pairOf(k) == <<found[k].startLine - 1, found[k].duplicateIn[1][2] - 1>>
    IN  /\ Len(found) = Cardinality(QualifyingPairs(fnArgs))
        /\ {pairOf(k) : k \in 1..Len(found)} = QualifyingPairs(fnArgs)

\* ------------------------------------------------------------------------
\* Properties of the issue ids
\* ------------------------------------------------------------------------
\* No two issues of the sequence carry the same id
DistinctIds(issues) ==
  \A i, j \in 1..Len(issues) : i # j => issues[i].id # issues[j].id

\* C12: within one analyzeCodeQuality call no two of the issues collected from
\* the batches carry the same id, whatever non-decreasing readings the clock
\* gave when the responses were parsed.
C12_ExtractedIdsDistinct ==
  pc \in {"batch", "awaiting", "tests"} => DistinctIds(aiIssues)

\* C13: in every report analyzeFiles returns, the issue ids are pairwise
\* distinct.
C13_ReportIdsDistinct ==
  pc = "done" => DistinctIds(report.issues)

PathsOf(fs) == {fs[k].path : k \in 1..Len(fs)}

\* C14: in every report analyzeFiles returns, the file of every issue is
\* "project" or the path of one of the files the report was produced from,
\* the issues taken from model responses included.
C14_IssueFilesAreUnitPaths ==
  pc = "done" =>
    \A k \in 1..Len(report.issues) :
      report.issues[k].file \in PathsOf(files) \cup {<<"p", "r", "o", "j", "e", "c", "t">>}

\* C15: without an API key the analyzer is constructed with no client; then
\* no model call is made, every batch contributes no issue, analyzeFiles on
\* files does not fail, and the report it returns is the one built from the
\* issues of the detectors and the two heuristics alone.
C15_NoKeyStaticAnalysisOnly ==
  /\ \A apiKey \in ApiKeys :
       getGeminiApiKey(apiKey) = Thrown => NewAIQualityAnalyzer(apiKey) = FALSE
  /\ ~hasClient =>
       /\ modelCalls = 0
       /\ batchResponse = NoOutcome
       /\ aiIssues = <<>>
       /\ files # <<>> => (pc # "failed" /\ error = NoError)
       /\ pc = "done" =>
            report = BuildReport(files, StaticIssues(files)
                                          \o analyzeTestCoverage(files)
                                          \o analyzeDocumentation(files))

\* A report returned without a client for files of two batches
C15_Witness ==
  /\ ~hasClient
  /\ pc = "done"
  /\ Len(files) > batchSize
  /\ report.issues # <<>>

\* ------------------------------------------------------------------------
\* Properties of the stored history
\* ------------------------------------------------------------------------
\* Call p of the session still in the map got an answer of the model in
\* this step
AnsweredByModel(p) ==
  /\ p \in pending
  /\ pending' = pending \ {p}
  /\ response'.body.answer \in Answers
  /\ p.sid \in DOMAIN sessions
  /\ sessions[p.sid] = p.obj

\* A request for the history of a session in the map is answered in this step
HistoryReturned ==
  /\ response' # response
  /\ response'.route = "history"
  /\ response'.status = 200

\* C16: an ask that gets an answer of the model appends one turn, holding
\* the question and the whole answer, at the end of the stored history of its
\* session and leaves the turns before it as they were; a request for the
\* history returns every stored turn in the order of appending.
C16_AnswersAppendedHistoryWhole ==
  [][/\ \A p \in pending :
          AnsweredByModel(p) =>
            heap'[p.obj].history =
              Append(heap[p.obj].history, Turn(p.question, response'.body.answer))
     /\ HistoryReturned =>
          /\ response'.body.history = heap[sessions[response'.sid]].history
          /\ heap' = heap]_vars

\* The history returned holds four turns or more, one of them with an answer
\* of more than 200 characters
C16_Witness ==
  /\ response.route = "history"
  /\ response.status = 200
  /\ Len(response.body.history) >= 4
  /\ response.sid \in DOMAIN sessions
  /\ response.body.history = heap[sessions[response.sid]].history
  /\ \E k \in 1..Len(response.body.history) : Len(response.body.history[k].answer) > 200

\* C17: as long as a session id stays in the map, no step of createSession,
\* askQuestion, getSuggestions, getHistory, clearSession or
\* cleanupOldSessions makes the stored history of that session shorter.
C17_HistoryNeverShrinks ==
  [][\A sid \in SessionIds :
       (sid \in DOMAIN sessions /\ sid \in DOMAIN sessions') =>
         Len(heap'[sessions'[sid]].history) >= Len(heap[sessions[sid]].history)]_vars

\* The model call of p, a call of the session still in the map, failed in
\* this step: the call is over and the answer is not one of the model
FailedCall(p) ==
  /\ p \in pending
  /\ pending' = pending \ {p}
  /\ response'.body.answer \notin Answers
  /\ p.sid \in DOMAIN sessions
  /\ sessions[p.sid] = p.obj

\* C18: an ask whose model call fails is answered, as a normal response, with
\* the apology; the stored history stays as it was, so that the prompt built
\* for any next question is the one built before the failed ask, and no
\* stored turn ever holds the apology as its answer.
C18_FailedAskLeavesHistory ==
  /\ [][\A p \in pending :
          FailedCall(p) =>
            /\ response' = HttpResponse("ask", p.sid, 200,
                             [answer         |-> ApologyAnswer,
                              suggestions    |-> response'.body.suggestions,
                              conversationId |-> p.sid])
            /\ heap'[p.obj].history = heap[p.obj].history
            /\ \A q \in Questions :
                 buildContextualPrompt(heap'[p.obj].report, heap'[p.obj].files,
                                       heap'[p.obj].history, q)
                 = buildContextualPrompt(heap[p.obj].report, heap[p.obj].files,
                                         heap[p.obj].history, q)]_vars
  /\ [](\A i \in 1..Len(heap) : \A k \in 1..Len(heap[i].history) :
          heap[i].history[k].answer # ApologyAnswer)

\* A failed ask after an answered one: the apology was returned and the
\* history holds the turn of the answered ask only
C18_Witness ==
  /\ response.route = "ask"
  /\ response.status = 200
  /\ response.body.answer = ApologyAnswer
  /\ pending = {}
  /\ response.sid \in DOMAIN sessions
  /\ Len(heap[sessions[response.sid]].history) = 1
  /\ qaCalls = 2

\* ------------------------------------------------------------------------
\* Properties of the suggested questions
\* ------------------------------------------------------------------------
BaselineQuestions ==
  << "What are the most critical issues I should fix first?",
     "How can I improve the overall code quality?",
     "What files need the most attention?" >>

\* The questions of the issue types, in the order of the types
TypeQuestions ==
  << [type |-> "security",
      questions |-> << "What security vulnerabilities were found?",
                       "How can I make my code more secure?" >>],
     [type |-> "performance",
      questions |-> << "What performance issues should I address?",
                       "How can I optimize the slow parts of my code?" >>],
     [type |-> "testing",
      questions |-> << "How can I improve test coverage?",
                       "What parts of the code need more testing?" >>],
     [type |-> "complexity",
      questions |-> << "Which functions are too complex?",
                       "How can I reduce code complexity?" >>],
     [type |-> "documentation",
      questions |-> << "What documentation is missing?",
                       "How can I improve code documentation?" >>] >>

\* The questions of the thresholds with the condition of each
ThresholdQuestions(rep) ==
  << [holds |-> rep.metrics.testCoverage < 50, question |-> "Why is my test coverage so low?"],
     [holds |-> rep.metrics.codeComplexity > 7, question |-> "Why is my code complexity high?"],
     [holds |-> rep.metrics.duplicationPercentage > 20, question |-> "Where is the duplicated code?"] >>

TypesOf(rep) == {rep.issues[k].type : k \in 1..Len(rep.issues)}

\* Every question there is, in the fixed order
QuestionOrder ==
     BaselineQuestions
  \o TypeQuestions[1].questions \o TypeQuestions[2].questions
  \o TypeQuestions[3].questions \o TypeQuestions[4].questions
  \o TypeQuestions[5].questions
  \o [k \in 1..3 |-> ThresholdQuestions([metrics |-> [testCoverage |-> 0, codeComplexity |-> 0,
                                                      duplicationPercentage |-> 0]])[k].question]

PositionOf(question) == CHOOSE k \in 1..Len(QuestionOrder) : QuestionOrder[k] = question

InFixedOrder(s) ==
  /\ \A k \in 1..Len(s) : \E n \in 1..Len(QuestionOrder) : QuestionOrder[n] = s[k]
  /\ \A k \in 1..(Len(s) - 1) : PositionOf(s[k]) < PositionOf(s[k + 1])

Contribution(s, entry) ==
  Cardinality({k \in 1..Len(s) : \E n \in 1..2 : s[k] = entry.questions[n]})

\* C20 as stated: every type among security, performance, testing,
\* complexity and documentation that the report has contributes one or two
\* of its questions, and every threshold that holds contributes its question.
C20_EveryTypeAndThresholdContributes ==
  (fnName = "getSuggestedQuestions" /\ fnResult.applied) =>
    LET s   == fnResult.value
        rep == SuggestReport(fnArgs)
    IN  /\ \A t \in 1..Len(TypeQuestions) :
             TypeQuestions[t].type \in TypesOf(rep) =>
               Contribution(s, TypeQuestions[t]) \in {1, 2}
        /\ \A h \in 1..3 :
             ThresholdQuestions(rep)[h].holds =>
               \E k \in 1..Len(s) : s[k] = ThresholdQuestions(rep)[h].question

\* The questions that are due for a report: the baseline questions, both
\* questions of every type the report has, the question of every threshold
\* that holds
RECURSIVE DueOfTypes(_, _)
DueOfTypes(rep, t) ==
  IF t > Len(TypeQuestions) THEN <<>>
  ELSE (IF TypeQuestions[t].type \in TypesOf(rep) THEN TypeQuestions[t].questions ELSE <<>>)
       \o DueOfTypes(rep, t + 1)

RECURSIVE DueOfThresholds(_, _)
DueOfThresholds(rep, h) ==
  IF h > 3 THEN <<>>
  ELSE (IF ThresholdQuestions(rep)[h].holds THEN <<ThresholdQuestions(rep)[h].question>> ELSE <<>>)
       \o DueOfThresholds(rep, h + 1)

DueQuestions(rep) == BaselineQuestions \o DueOfTypes(rep, 1) \o DueOfThresholds(rep, 1)

\* C20 as amended: the result is the first 8 of the questions that are due,
\* so that a type or a threshold contributes exactly the questions of it
\* that stand among the first 8, and all of them when no more than 8 are due.
C20_ContributionsUpToTheCap ==
  (fnName = "getSuggestedQuestions" /\ fnResult.applied) =>
    LET s   == fnResult.value
        due == DueQuestions(SuggestReport(fnArgs))
    IN  /\ Len(s) = (IF Len(due) <= 8 THEN Len(due) ELSE 8)
        /\ \A k \in 1..Len(s) : s[k] = due[k]

\* A report with issues of four types: the questions of complexity are due
\* and none of them is among the 8 returned
C20_Witness ==
  /\ fnName = "getSuggestedQuestions"
  /\ fnResult.applied
  /\ "complexity" \in TypesOf(SuggestReport(fnArgs))
  /\ Contribution(fnResult.value, TypeQuestions[4]) = 0
  /\ Contribution(fnResult.value, TypeQuestions[3]) = 1
  /\ Len(DueQuestions(SuggestReport(fnArgs))) > 8

\* ------------------------------------------------------------------------
\* Properties of the analysis prompt
\* ------------------------------------------------------------------------
\* The content lines of a prompt, one per file of the batch
ContentEntries(prompt) == SelectSeq(prompt, LAMBDA l : l[1] = "${content}")

\* C21: for every file of a batch, the prompt holds the first 2000
\* characters of the file (all of them when it has fewer), followed by the
\* marker "..." exactly when the file has more than 2000 characters; what a
\* file adds as content never exceeds 2004 characters.
C21_PromptContentBounded ==
  (fnName = "createAnalysisPrompt" /\ fnResult.applied) =>
    LET fs      == AnalysisPromptFiles(fnArgs)
        entries == ContentEntries(fnResult.value)
    IN  /\ Len(entries) = Len(fs)
        /\ \A k \in 1..Len(fs) :
             LET text   == Join(fs[k].content)
                 placed == entries[k][2]
                 kept   == IF Len(text) > 2000 THEN 2000 ELSE Len(text)
             IN  /\ Len(placed) >= kept
                 /\ SubSeq(placed, 1, kept) = SubSeq(text, 1, kept)
                 /\ SubSeq(placed, kept + 1, Len(placed))
                      = (IF Len(text) > 2000 THEN <<" ", ".", ".", ".">> ELSE <<" ">>)
                 /\ Len(placed) <= 2004

\* A batch of two files, the second of 2001 characters: its content is cut
\* and marked
C21_Witness ==
  /\ fnName = "createAnalysisPrompt"
  /\ fnResult.applied
  /\ fnArgs.batch = 2
  /\ Len(Join(AnalysisPromptFiles(fnArgs)[2].content)) = 2001
  /\ Len(ContentEntries(fnResult.value)[2][2]) = 2004

\* ------------------------------------------------------------------------
\* Properties of the recommendations
\* ------------------------------------------------------------------------
\* The message of each category, in the fixed order
CategoryMessages ==
  << [type |-> "security",
      message |-> "Address security vulnerabilities immediately - they pose the highest risk"],
     [type |-> "performance",
      message |-> "Optimize performance bottlenecks to improve user experience"],
     [type |-> "testing",
      message |-> "Increase test coverage to catch bugs early and enable safe refactoring"],
     [type |-> "complexity",
      message |-> "Refactor complex code to improve maintainability"],
     [type |-> "documentation",
      message |-> "Improve documentation to help team members understand the codebase"] >>

PositiveMessage == "Great job! Your code quality looks good overall"

IndexOfMessage(s, message) == {k \in 1..Len(s) : s[k] = message}

\* One issue of every type that args has an issue of
OneOfEachType(args) == [f \in DOMAIN args |-> IF args[f] > 0 THEN 1 ELSE 0]

\* C22: the message of a category is in the recommendations, once, exactly
\* when the issues hold one of its type, and the messages stand in the order
\* security, performance, testing, complexity, documentation; the positive
\* message is there exactly when no category has an issue, and then alone;
\* the list is never empty and is the same for one issue of a type as for
\* several.
C22_RecommendationsByPresence ==
  (fnName = "generateRecommendations" /\ fnResult.applied) =>
    LET s == fnResult.value IN
      /\ \A c \in 1..Len(CategoryMessages) :
           Cardinality(IndexOfMessage(s, CategoryMessages[c].message))
             = (IF fnArgs[CategoryMessages[c].type] > 0 THEN 1 ELSE 0)
      /\ \A c, d \in 1..Len(CategoryMessages) :
           \A i \in IndexOfMessage(s, CategoryMessages[c].message) :
             \A j \in IndexOfMessage(s, CategoryMessages[d].message) :
               c < d => i < j
      /\ (s = <<PositiveMessage>>) <=>
           (\A c \in 1..Len(CategoryMessages) : fnArgs[CategoryMessages[c].type] = 0)
      /\ IndexOfMessage(s, PositiveMessage) # {} => s = <<PositiveMessage>>
      /\ Len(s) > 0
      /\ s = generateRecommendations(RecommendIssues(OneOfEachType(fnArgs)))

\* Two security issues, one testing issue and a duplication issue: two messages
C22_Witness ==
  /\ fnName = "generateRecommendations"
  /\ fnResult.applied
  /\ fnArgs.security = 2
  /\ fnArgs.testing = 1
  /\ fnArgs.duplication = 1
  /\ Len(fnResult.value) = 2

\* ------------------------------------------------------------------------
\* Properties of the detectors on one file
\* ------------------------------------------------------------------------
\* The rule tables of the security and the performance detector that are
\* scanned pattern by pattern and line by line; a pair of the randomness
\* table matches when the line holds a word of the security context as well
PatternTables ==
  << [rule |-> "sql-injection",        pats |-> sqlPatterns,         ci |-> TRUE],
     [rule |-> "xss",                  pats |-> xssPatterns,         ci |-> TRUE],
     [rule |-> "hardcoded-secret",     pats |-> secretPatterns,      ci |-> TRUE],
     [rule |-> "insecure-random",      pats |-> randomPatterns,      ci |-> TRUE],
     [rule |-> "path-traversal",       pats |-> pathPatterns,        ci |-> TRUE],
     [rule |-> "command-injection",    pats |-> commandPatterns,     ci |-> TRUE],
     [rule |-> "inefficient-query",    pats |-> inefficientPatterns, ci |-> TRUE],
     [rule |-> "memory-leak",          pats |-> memoryLeakPatterns,  ci |-> TRUE],
     [rule |-> "sync-operation",       pats |-> syncPatterns,        ci |-> TRUE],
     [rule |-> "large-data-structure", pats |-> <<arrayLiteralPattern, objectLiteralPattern>>,
      ci |-> FALSE] >>

\* The 0-based indexes of the lines of the matching (pattern, line) pairs of
\* a table, line by line and pattern by pattern
MatchingPairs(lines, table) ==
  LET all == Hits(lines, table.pats, table.ci)
      hit == IF table.rule = "insecure-random"
             THEN SelectSeq(all, LAMBDA h : Test(securityContextPattern, TRUE, lines[h.index + 1]))
             ELSE all
  IN  [k \in 1..Len(hit) |-> hit[k].index]

IssuesOfRule(issues, rule) == SelectSeq(issues, LAMBDA i : i.id[1] = rule)

\* C23: for every rule table of the security and the performance detector,
\* the issues of the rule are one per matching (pattern, line) pair, in the
\* order of the scan and with no pair left out or merged; each has the path
\* of the file and the 1-based number of the matching line.
C23_OneIssuePerMatchingPair ==
  (fnName = "analyzeFile" /\ fnResult.applied) =>
    \A t \in 1..Len(PatternTables) :
      LET found == IssuesOfRule(fnResult.value, PatternTables[t].rule)
          pairs == MatchingPairs(fnArgs, PatternTables[t])
      IN  /\ Len(found) = Len(pairs)
          /\ \A k \in 1..Len(found) :
               /\ found[k].file = FileQuery.path
               /\ found[k].line = pairs[k] + 1

\* ------------------------------------------------------------------------
\* Properties of the batches
\* ------------------------------------------------------------------------
\* The batches of fs one after the other
RECURSIVE BatchesFrom(_, _)
BatchesFrom(fs, start) ==
  IF start >= Len(fs) THEN <<>>
  ELSE <<Batch(fs, start)>> \o BatchesFrom(fs, start + batchSize)

RECURSIVE Flatten(_)
Flatten(ss) == IF ss = <<>> THEN <<>> ELSE Head(ss) \o Flatten(Tail(ss))

\* C24: the batches of analyzeCodeQuality are ceil(n/3) runs of 3 files in
\* input order, the last one possibly shorter, which together are the input;
\* one model call at most is made per batch and a call is started only when
\* none is outstanding; the issues parsed from the response of a batch are
\* appended, in the order of the response, to those of the earlier batches,
\* and the result of the last batch is what analyzeFiles takes over.
C24_BatchesInOrder ==
  /\ [](pc \in {"batch", "awaiting"} =>
          LET batches == BatchesFrom(files, 0) IN
            /\ Len(batches) = BatchCount(Len(files))
            /\ Flatten(batches) = files
            /\ \A k \in 1..Len(batches) :
                 Len(batches[k]) = (IF k < Len(batches) THEN 3 ELSE Len(files) - 3 * (k - 1))
            /\ batchStart % 3 = 0
            /\ modelCalls = (IF hasClient
                             THEN batchStart \div 3 + (IF pc = "awaiting" THEN 1 ELSE 0)
                             ELSE 0))
  /\ [][/\ modelCalls' > modelCalls =>
             (pc = "batch" /\ pc' = "awaiting" /\ modelCalls' = modelCalls + 1)
        /\ (pc = "awaiting" /\ batchResponse'.kind = "text") =>
             aiIssues' = aiIssues \o parseAIResponse(batchResponse'.text,
                                                    Batch(files, batchStart), clock')
        /\ (pc = "batch" /\ pc' = "tests") =>
             (batchStart >= Len(files) /\ allIssues' = allIssues \o aiIssues)]_vars

\* Both batches of four files were answered with issues: the issues of the
\* first batch stand before those of the second
C24_Witness ==
  /\ pc = "tests"
  /\ Len(files) = 4
  /\ modelCalls = 2
  /\ \E i, j \in 1..Len(aiIssues) :
       /\ i < j
       /\ aiIssues[i].file = files[1].path
       /\ aiIssues[j].file = files[4].path
       /\ files[1].path # files[4].path

\* ------------------------------------------------------------------------
\* Properties of the report as a whole
\* ------------------------------------------------------------------------
\* C25: the caller of analyzeFiles sees a report only when the call is done,
\* and then the detectors have run on every file, every batch has been asked
\* and answered or failed, and the issues of both heuristics are counted;
\* the report appears in a single step and a failed call leaves none.
C25_ReportOnlyWhenComplete ==
  /\ [](report # NoReport =>
          /\ pc = "done"
          /\ detectorRuns = 3 * Len(files)
          /\ batchStart >= Len(files)
          /\ batchResponse = NoOutcome
          /\ modelCalls = (IF hasClient THEN BatchCount(Len(files)) ELSE 0)
          /\ report.issues = allIssues
          /\ report.summary.issueCount = Len(allIssues))
  /\ [](pc = "failed" => report = NoReport)
  /\ [][/\ report' # report =>
             \/ report = NoReport /\ pc = "docs" /\ pc' = "done"
             \/ report' = NoReport /\ pc' = "idle"
        /\ (pc = "tests" /\ pc' # pc) =>
             (pc' = "docs" /\ allIssues' = allIssues \o analyzeTestCoverage(files))
        /\ (pc = "docs" /\ pc' # pc) =>
             /\ pc' = "done"
             /\ Len(allIssues') = Len(allIssues) + Len(analyzeDocumentation(files))]_vars

\* A report on four files with issues of the model and of the heuristics
C25_Witness ==
  /\ pc = "done"
  /\ report # NoReport
  /\ Len(files) = 4
  /\ aiIssues # <<>>
  /\ analyzeTestCoverage(files) # <<>>
  /\ analyzeDocumentation(files) # <<>>

\* ------------------------------------------------------------------------
\* C26
\* ------------------------------------------------------------------------
\* A function tracker as the claim describes it: the functions of the lines
\* from 0-based index on, each opened at a declaration met while none is open
\* and closed at the first line where the brace balance is back at zero (or
\* below) after an opening brace has been counted; cur carries the open
\* function, positive says whether the balance has been positive
RECURSIVE FunctionsByBalance(_, _, _, _, _)
FunctionsByBalance(lines, index, cur, balance, positive) ==
  IF index >= Len(lines) THEN <<>>
  ELSE
    LET line      == lines[index + 1]
        opens     == Test(functionPattern, FALSE, line) /\ ~cur.open
        cur1      == IF opens
                     THEN [open |-> TRUE, name |-> FunctionName(line), startLine |-> index,
                           lineCount |-> 0, complexity |-> 1]
                     ELSE cur
        cur2      == [cur1 EXCEPT !.lineCount = @ + 1,
                                  !.complexity = @ + CountMatches(complexityPatterns, FALSE, line)]
        balance1  == (IF opens THEN 0 ELSE balance) + CountChar(line, "{") - CountChar(line, "}")
        positive1 == (~opens /\ positive) \/ CountChar(line, "{") > 0
        closes    == positive1 /\ balance1 <= 0
    IN  IF ~cur1.open THEN FunctionsByBalance(lines, index + 1, cur1, 0, FALSE)
        ELSE IF closes
             THEN <<cur2>> \o FunctionsByBalance(lines, index + 1,
                                 [cur2 EXCEPT !.open = FALSE], 0, FALSE)
             ELSE FunctionsByBalance(lines, index + 1, cur2, balance1, positive1)

\* The start line and the description arguments (name, count) of the issues
\* with the given title
ReportedFunctions(issues, title) ==
  {<<issues[i].line, issues[i].description.args>> :
      i \in {k \in 1..Len(issues) : issues[k].title = title}}

\* C26: each tracker of the Complexity detector opens a function at a
\* declaration met while none is open and closes it at the first line where
\* the brace balance returns to zero after having been positive, and the
\* long-function and high-complexity issues are emitted at such a close: the
\* issues name exactly the functions so delimited that are over the limit
C26_FunctionsCloseAtBalance ==
  (fnName = "complexityAnalyzeFile" /\ fnResult # NotApplied) =>
     LET functions == FunctionsByBalance(fnArgs, 0,
                         [open |-> FALSE, name |-> <<>>, startLine |-> 0,
                          lineCount |-> 0, complexity |-> 1], 0, FALSE)
         closed    == {functions[i] : i \in 1..Len(functions)}
     IN  /\ ReportedFunctions(fnResult.value, "Long Function")
              = {<<f.startLine + 1, <<f.name, f.lineCount>>>> : f \in {g \in closed : g.lineCount > 50}}
         /\ ReportedFunctions(fnResult.value, "High Cyclomatic Complexity")
              = {<<f.startLine + 1, <<f.name, f.complexity>>>> : f \in {g \in closed : g.complexity > 10}}

\* ------------------------------------------------------------------------
\* C27
\* ------------------------------------------------------------------------
\* The keys that were inserted first, up to n of them
InsertedEarliest(n) == {sessionKeys[i] : i \in 1..Min(n, Len(sessionKeys))}

\* C27: a call of cleanupOldSessions on a map of more than 100 sessions
\* removes exactly the 50 sessions inserted earliest and leaves every other
\* session and its history as they were; on a map of 100 sessions or fewer it
\* changes nothing, whatever maxAgeHours is
C27_SizeTriggeredSweep ==
  [][(fnName = "cleanupOldSessions" /\ fnResult = NotApplied /\ fnResult' # NotApplied) =>
       IF Cardinality(DOMAIN sessions) > 100
       THEN /\ DOMAIN sessions' = DOMAIN sessions \ InsertedEarliest(50)
            /\ Cardinality(DOMAIN sessions') = Cardinality(DOMAIN sessions) - 50
            /\ sessionKeys' = SubSeq(sessionKeys, 51, Len(sessionKeys))
            /\ \A k \in DOMAIN sessions' :
                  /\ sessions'[k] = sessions[k]
                  /\ heap'[sessions'[k]] = heap[sessions[k]]
       ELSE /\ sessions' = sessions
            /\ sessionKeys' = sessionKeys
            /\ heap' = heap]_vars

\* A sweep of a map of 101 sessions inserted in descending order of their
\* ids has left the 51 sessions inserted last, histories included
C27_Witness ==
  /\ fnName = "cleanupOldSessions"
  /\ fnResult # NotApplied
  /\ DOMAIN sessions = {SweepSessionId(i) : i \in 1..51}
  /\ Head(sessionKeys) = SweepSessionId(51)
  /\ \E k \in DOMAIN sessions : heap[sessions[k]].history # <<>>
  /\ \E k \in DOMAIN sessions : heap[sessions[k]].history = <<>>

\* A call on a map of exactly 100 sessions has changed nothing
C27_WitnessAtThreshold ==
  /\ fnName = "cleanupOldSessions"
  /\ fnResult # NotApplied
  /\ Cardinality(DOMAIN sessions) = 100

\* ------------------------------------------------------------------------
\* C28
\* ------------------------------------------------------------------------
\* Call p returns in this step while another call on its session is in flight
ReturnsAmongOthers(p) ==
  /\ p \in pending
  /\ p \notin pending'
  /\ \E q \in pending \ {p} : q.obj = p.obj

\* C28: when calls on one session are in flight at once no update is lost:
\* each call that returns with an answer of the model adds its turn at the end
\* of the history as the calls that returned before it left it, a call that
\* fails adds nothing, and the calls still in flight and the histories of the
\* other sessions stay as they were
C28_ConcurrentAsksLoseNoUpdate ==
  [][\A p \in pending :
        ReturnsAmongOthers(p) =>
          /\ pending' = pending \ {p}
          /\ heap'[p.obj].history =
               IF response'.body.answer \in Answers
               THEN Append(heap[p.obj].history, Turn(p.question, response'.body.answer))
               ELSE heap[p.obj].history
          /\ \A i \in (1..Len(heap)) \ {p.obj} : heap'[i] = heap[i]
          /\ sessions' = sessions]_vars

\* Two sessions; all the calls have returned, and the first session holds two
\* turns, the longer answer before the shorter one, next to a history of the
\* other session
C28_Witness ==
  /\ DOMAIN sessions = SessionIds
  /\ pending = {}
  /\ qaCalls = MaxParAsks
  /\ \E s \in SessionIds :
       /\ Len(heap[sessions[s]].history) = 2
       /\ heap[sessions[s]].history[1].answer = AnswerLong
       /\ heap[sessions[s]].history[2].answer = AnswerShort
       /\ \E o \in SessionIds \ {s} : Len(heap[sessions[o]].history) = 1

\* A call in flight whose prompt was built on the empty history while the
\* history of its session holds the turn of a call that has returned since
C28_InFlightAtOnce ==
  \E q \in pending :
     /\ heap[q.obj].history # <<>>
     /\ q.prompt = buildContextualPrompt(heap[q.obj].report, heap[q.obj].files,
                                         <<>>, q.question)

\* ------------------------------------------------------------------------
\* C29
\* ------------------------------------------------------------------------
\* The session of call p is in the map as the object the call runs on
StillInMap(p) == p.sid \in DOMAIN sessions /\ sessions[p.sid] = p.obj

\* C29: a call that is in flight while its session is cleared or deleted still
\* returns: a call leaves the calls in flight only with the response to its
\* request, which holds the answer of the model.  On a session still in the
\* map whose history is empty, as after a clear, the turn becomes the only one
\* of the history.  On a session that is not in the map any more the map
\* stays without it, the histories of the sessions in the map stay as they
\* were, and a request for the history of an id that is not in the map is
\* answered with not-found
C29_ClearOrDeleteDuringAsk ==
  /\ [][\A p \in pending :
          p \notin pending' =>
            /\ pending' = pending \ {p}
            /\ sessions' = sessions
            /\ response'.route = "ask"
            /\ response'.sid = p.sid
            /\ response'.status = 200
            /\ response'.body.conversationId = p.sid
            /\ response'.body.answer \in Answers \cup {ApologyAnswer}
            /\ (response'.body.answer \in Answers /\ StillInMap(p)
                  /\ heap[p.obj].history = <<>>) =>
                 heap'[p.obj].history = <<Turn(p.question, response'.body.answer)>>
            /\ ~StillInMap(p) =>
                 \A k \in DOMAIN sessions : heap'[sessions'[k]] = heap[sessions[k]]]_vars
  /\ [][(response' # response /\ response'.route = "history") =>
          /\ response'.status = (IF response'.sid \in DOMAIN sessions THEN 200 ELSE 404)
          /\ response'.status = 200 =>
               response'.body.history = heap[sessions[response'.sid]].history]_vars

\* A call in flight on a session in the map whose history was cleared after
\* the call had built its prompt on a turn
C29_ClearedDuringAsk ==
  \E p \in pending :
     /\ StillInMap(p)
     /\ heap[p.obj].history = <<>>
     /\ p.prompt # buildContextualPrompt(heap[p.obj].report, heap[p.obj].files,
                                         <<>>, p.question)

\* The answer of a call has been returned for a session that is not in the
\* map, and no session of the map holds a turn
C29_AnsweredAfterDelete ==
  /\ response.route = "ask"
  /\ response.status = 200
  /\ response.body.answer \in Answers
  /\ response.sid \notin DOMAIN sessions
  /\ qaCalls = 1
  /\ pending = {}

\* ------------------------------------------------------------------------
\* C30
\* ------------------------------------------------------------------------
\* The types of the issues of the detectors and of the two heuristic passes
ScannedTypes == {"security", "performance", "complexity", "testing", "documentation"}

\* C30: analyzeFiles does not run the CodeParser, so no issue of a report
\* comes from it: a report to which the model has contributed no issue holds
\* issues of the detectors and of the heuristic passes only, none of type
\* duplication or maintainability, its duplicationPercentage is 0 and its
\* testCoverage is 80 or 100
C30_NoIssueOfTheMetricsScanner ==
  (report # NoReport /\ aiIssues = <<>>) =>
     /\ \A i \in 1..Len(report.issues) :
           /\ report.issues[i].type \in ScannedTypes
           /\ report.issues[i].type \notin {"duplication", "maintainability"}
     /\ report.metrics.duplicationPercentage = 0
     /\ report.metrics.testCoverage \in {80, 100}

\* A report of an analysis with credentials whose model calls all failed or
\* returned no issue: issues of the detectors, no tests found
C30_Witness ==
  /\ pc = "done"
  /\ report # NoReport
  /\ hasClient
  /\ modelCalls > 0
  /\ aiIssues = <<>>
  /\ report.metrics.testCoverage = 80
  /\ \E i \in 1..Len(report.issues) : report.issues[i].type = "security"

\* A report without credentials on files with tests
C30_WitnessFullCoverage ==
  /\ pc = "done"
  /\ report # NoReport
  /\ ~hasClient
  /\ report.metrics.testCoverage = 100
====
